---- MODULE Spec2Model ----
(***************************************************************************)
(* State-machine model of the iframe-rpc bridges.                          *)
(*                                                                         *)
(* The repository holds two generations of the library:                    *)
(*   - the class bridges ParentBridge (src/src/parent-bridge.ts) and       *)
(*     ChildBridge (src/unnamed/part_009), with a connection state, a      *)
(*     handshake and a pending map;                                        *)
(*   - the functional bridge createBridge (src/unnamed/part_011), with an  *)
(*     isDestroyed flag, a pending map and a retry loop.                   *)
(* One behaviour follows ONE bridge instance; `kind` says which of the     *)
(* three it is.  The counterpart context and the transport are the         *)
(* environment: every inbound message event is drawn from small sets.      *)
(*                                                                         *)
(* Granularity: one step is one task of the JavaScript event loop (a       *)
(* public method call, a message event, a timer callback, the completion   *)
(* of an asynchronous handler) together with the promise continuations     *)
(* (microtasks) it releases.                                               *)
(***************************************************************************)
EXTENDS Integers, Sequences, FiniteSets, TLC

\* ------------------------------------------------------------------ bounds
MaxCalls == 2
MaxConnects == 2
MaxInbound == 1
MaxHandshakes == 2
MaxRetries == 2
handshakeRetries == 2
MaxTime == 12
MaxIds == 3

\* --------------------------------------------------------------- constants
Null == 0
\* a null string (parentOrigin before the handshake, an empty field of a message)
NoOrigin == ""
\* request.methods of a HandshakeRequest that does not carry the optional field
Absent == {"(absent)"}

\* BridgeErrorCode
TIMEOUT == "BRIDGE_TIMEOUT"
METHOD_NOT_FOUND == "BRIDGE_METHOD_NOT_FOUND"
HANDLER_ERROR == "BRIDGE_HANDLER_ERROR"
NOT_CONNECTED == "BRIDGE_NOT_CONNECTED"
HANDSHAKE_FAILED == "BRIDGE_HANDSHAKE_FAILED"
\* the same code, thrown by connect() with the message "Connection already in progress"
ALREADY_IN_PROGRESS == "BRIDGE_HANDSHAKE_FAILED: Connection already in progress"
\* the same code, thrown by performHandshake with { cause } a NOT_CONNECTED error rather
\* than the timeout of the last attempt
HANDSHAKE_FAILED_UNSENT == "BRIDGE_HANDSHAKE_FAILED: cause BRIDGE_NOT_CONNECTED"
DESTROYED == "BRIDGE_DESTROYED"
UNKNOWN == "BRIDGE_UNKNOWN"
BridgeErrorCode ==
    { TIMEOUT, METHOD_NOT_FOUND, HANDLER_ERROR, "BRIDGE_INVALID_ORIGIN", NOT_CONNECTED,
      HANDSHAKE_FAILED, "BRIDGE_INVALID_MESSAGE", "BRIDGE_VALIDATION_ERROR", DESTROYED,
      UNKNOWN }

\* MessageType
REQUEST == "bridge:request"
RESPONSE == "bridge:response"
HANDSHAKE_REQUEST == "bridge:handshake:request"
HANDSHAKE_ACK == "bridge:handshake:ack"

\* MESSAGE_TYPE of createBridge
RPC_REQUEST == "iframe-rpc:request"
RPC_RESPONSE == "iframe-rpc:response"
RPC_ERROR == "iframe-rpc:error"
FIRE_AND_FORGET == "iframe-rpc:fire-and-forget"

\* ConnectionState
ConnectionState == {"disconnected", "connecting", "connected", "destroyed"}

\* The environment: sender origins, method names, the handlers registered.
Origins == {"https://a", "https://b", "https://evil"}
OriginConfigs == { <<"https://a", "https://b">>, <<"*">> }
Methods == {"add", "boom", "missing"}
\* config.methods: "add" returns a value, "boom" throws; "missing" is not registered
handlers == [add |-> "returns", boom |-> "throws"]
PeerMethodSets == { {}, {"add"} }
\* the methods the application calls on the counterpart
CallMethods == {"add"}
\* CallOptions.timeout not given
NoOverride == -1
\* undefined: a field a message does not carry, a value not yet known
NoData == "(undefined)"
\* an empty error message
NoMessage == << >>
\* the code of a failure response that lacks its `error` object
NoError == "(no error)"
\* the payload of a request that lacks its `args`
NoArgs == "(no args)"
\* the payloads (argument lists) a caller passes, and the values a remote handler returns
Payloads == {"p1", "p2"}
Values == {"v1", "v2"}
\* what the local handler "add" returns for a payload; "boom" throws Error("boom!")
handlerResult == [p1 |-> "sum1", p2 |-> "sum2"]

VARIABLES
    kind,                \* "parent" | "child" | "core": the bridge under observation
    allowedOrigins,      \* config.origin normalised to an array
    state,               \* ConnectionState
    targetWindow,        \* ParentBridge: TRUE iff this.targetWindow is not null
    parentOrigin,        \* ChildBridge: Null or the origin recorded at handshake
    listening,           \* the "message" listener is attached to window
    pending,             \* keys of the pending map
    timers,              \* armed timers (setTimeout handles not yet fired or cleared)
    handshakeResolve,    \* Null, or the attempt whose promise/timer the closure holds
    pendingHandshakeId,  \* Null or the id of the last handshake request minted
    remoteMethods,       \* ParentBridge.remoteMethods
    parentMethods,       \* ChildBridge.parentMethods
    counter,             \* utils/correlation.ts: module counter of generateCorrelationId
    sent,                \* every message handed to the transport so far
    calls,               \* one record per call() invocation: its promise and bookkeeping
    connects,            \* one record per connect() invocation: the state of its promise
    conn,                \* the running performHandshake loop
    inbound,             \* one record per inbound request routed to handleRequest
    isDestroyed,         \* createBridge: let isDestroyed
    pendingRequests,     \* createBridge: keys of the pendingRequests map
    options,             \* createBridge: the resolved options (targetOrigin, channel, retry)
    minted,              \* createBridge: how many ids generateId() has returned
    now,                 \* the host's clock (Date.now()), in units of the shortest delay
    issued,              \* utils/correlation.ts: the ids returned to a direct caller
    childOrigin,         \* environment: the origin of the document in the target window
                         \* (NoOrigin when a behaviour leaves it open)
    destroyCalled,       \* history: destroy() has been called on this bridge
    last                 \* history: the operation of the last step

vars ==
    << kind, allowedOrigins, state, targetWindow, parentOrigin, listening, pending, timers,
       handshakeResolve, pendingHandshakeId, remoteMethods, parentMethods, counter, sent,
       calls, connects, conn, inbound, isDestroyed, pendingRequests, options, minted,
       now, issued, childOrigin, destroyCalled, last >>

\* ------------------------------------------------------------------ helpers
Range(s) == { s[i] : i \in 1..Len(s) }

CallTimer(id) == [t |-> "call", n |-> id]
HandshakeTimer(tok) == [t |-> "handshake", n |-> tok]
SleepTimer == [t |-> "sleep", n |-> 0]

\* A wire message.  Fields a kind does not carry hold Null / "" / {}.
\* data is the payload of a request or the data of a response; code, message and details
\* are the error of a failure response.
Msg(type, id, requestId, method, success, code, methods) ==
    [type |-> type, id |-> id, requestId |-> requestId, method |-> method,
     success |-> success, code |-> code, methods |-> methods, channel |-> "",
     data |-> NoData, message |-> NoMessage, details |-> NoData]

\* A wire message of createBridge: { __iframeRpc, type, channel, id, method | error.code }
\* data is args of a request and result of a response; code and message are error.code
\* and error.message of an error
RpcMsg(type, channel, id, method, code) ==
    [type |-> type, id |-> id, requestId |-> Null, method |-> method,
     success |-> FALSE, code |-> code, methods |-> {}, channel |-> channel,
     data |-> NoData, message |-> NoMessage, details |-> NoData]

\* The performHandshake loop: its position, the attempt number, the id of the attempt
\* awaited, the connect() it serves, when that connect() was called (t0) and when the
\* current attempt or sleep began (at).
IdleConn == [pc |-> "idle", attempt |-> 0, tok |-> Null, rec |-> 0, t0 |-> 0, at |-> 0]

\* The promise call() returns, with the position of its retry loop and its history:
\* settles counts the invocations of resolve/reject, nsent the requests sent,
\* ntimeouts the attempts that timed out, replied whether a response reached it,
\* lasterr the code the last attempt's pending entry was rejected with, sentAt when
\* the last request was sent, failedAt when the last attempt failed, delay the argument
\* of the sleep() that followed.  payload is the argument the caller passed and timeout the
\* effective timeout of the call (override: the CallOptions.timeout passed); value is what
\* the promise resolved to; errmsg and
\* details are the message and the details of the error it rejected with.
NewCall(m) ==
    [method |-> m, pc |-> "waiting", id |-> Null, attempt |-> 0, outcome |-> "",
     errclass |-> "", settles |-> 0, nsent |-> 0, ntimeouts |-> 0, replied |-> FALSE,
     lasterr |-> "", sentAt |-> 0, failedAt |-> 0, delay |-> 0,
     payload |-> NoData, override |-> NoOverride, timeout |-> 0, value |-> NoData,
     errmsg |-> NoMessage, details |-> NoData, escaped |-> FALSE]

\* history: no message
NoMsg == Msg("none", 0, Null, "", FALSE, "", {})

\* history: the tag of a step, with the correlation id a routed response carried, the
\* methods a routed handshake message advertised, and the routed message itself
Op(name) == [op |-> name, rid |-> Null, methods |-> {}, origin |-> NoOrigin, msg |-> NoMsg]

\* what every step of the bridge leaves alone: its configuration, the clock, the ids
\* handed to direct callers of the generator, and where the counterpart is
config == << kind, allowedOrigins, options, now, issued, childOrigin >>

\* the state of createBridge, which the class bridges leave alone
core == << isDestroyed, pendingRequests, minted >>

\* the state of the class bridges that createBridge does not have
class ==
    << state, targetWindow, parentOrigin, pending, handshakeResolve, pendingHandshakeId,
       remoteMethods, parentMethods, counter, connects, conn >>

\* a bridge that validates no origin
isValidOriginAny(origin) == TRUE

\* isValidOrigin(origin)
isValidOrigin(origin) ==
    "*" \in Range(allowedOrigins) \/ origin \in Range(allowedOrigins)

\* mapErrorCode(code)
mapErrorCode(code) == IF code \in BridgeErrorCode THEN code ELSE UNKNOWN

\* new BridgeError(code, message, { details }), as toJSON() serializes it
BridgeError(code, message, details) ==
    [code |-> code, message |-> message, details |-> details]
\* BridgeError.timeout(method, timeoutMs)
timeout(method, timeoutMs) ==
    BridgeError(TIMEOUT, << "Request to '", method, "' timed out after ",
                            ToString(timeoutMs), "ms" >>, NoData)
\* a not-found error that does not say which method
methodNotFoundAnonymous(method) ==
    BridgeError(METHOD_NOT_FOUND, << "Method not found" >>, NoData)

\* BridgeError.methodNotFound(method)
methodNotFound(method) ==
    BridgeError(METHOD_NOT_FOUND, << "Method '", method, "' not found" >>, NoData)
\* BridgeError.notConnected()
notConnected ==
    BridgeError(NOT_CONNECTED, << "Bridge is not connected. Call connect() first." >>, NoData)
\* BridgeError.destroyed()
destroyed ==
    BridgeError(DESTROYED, << "Bridge has been destroyed and cannot be used." >>, NoData)
\* BridgeError.handlerError(method, error): the cause is not serialized
handlerError(method, error) ==
    BridgeError(HANDLER_ERROR, << "Handler for '", method, "' threw an error: ", error >>,
                NoData)

\* the index of the call whose current attempt carries correlation id `id`
CallOf(id) == CHOOSE c \in 1..Len(calls) : calls[c].id = id

\* pending.resolve / pending.reject of a promise: the first invocation decides
Settle(cs, c, outcome) ==
    [cs EXCEPT ![c] = [@ EXCEPT !.pc = "done",
                                !.outcome = IF @ = "" THEN outcome ELSE @,
                                !.lasterr = IF outcome = "ok" THEN @ ELSE outcome,
                                !.settles = @ + 1]]

\* a promise that resolves without the value
ResolveUndefined(cs, c, value) == Settle(cs, c, "ok")

\* pending.resolve(value)
Resolve(cs, c, value) ==
    [Settle(cs, c, "ok") EXCEPT ![c].value = IF cs[c].outcome = "" THEN value ELSE @]

\* a rejection that keeps only the code of the error
RejectCodeOnly(cs, c, error) == Settle(cs, c, error.code)

\* pending.reject(error) / Promise.reject(error)
Reject(cs, c, error) ==
    [Settle(cs, c, error.code) EXCEPT
        ![c].errmsg = IF cs[c].outcome = "" THEN error.message ELSE @,
        ![c].details = IF cs[c].outcome = "" THEN error.details ELSE @]

\* reading `.code` / `.message` of a missing `error` object throws a TypeError before
\* pending.reject is reached: the promise of the call stays unsettled and the exception
\* leaves the message handler
Throws(cs, c) == [cs EXCEPT ![c].escaped = TRUE]

\* postMessage(message): FALSE when it throws notConnected()
canPost == IF kind = "parent" THEN targetWindow ELSE parentOrigin # NoOrigin

\* a pending map that hands out its oldest entry, whatever id is asked for
pendingGetOldest(requestId) ==
    IF pending = {} THEN Null ELSE CHOOSE k \in pending : \A j \in pending : k <= j

\* this.pending.get(requestId): the key found, or Null
pendingGet(requestId) == IF requestId \in pending THEN requestId ELSE Null

\* a bridge that honours every acknowledgment
ackMatchesAny(requestId) == TRUE

\* ack.requestId !== this.pendingHandshakeId, negated
ackMatches(requestId) == requestId = pendingHandshakeId

\* --------------------------------------------------------------------- Init
\* The options a createBridge instance may be given (mergeOptions over the defaults,
\* which checks no value: maxRetries may be negative).
\* Durations are in units of the shortest one; handshakeTimeout and retryDelay of a class
\* bridge are config.handshakeTimeout and config.retryDelay.
\* The last three fields are the workload of a behaviour: the payloads the application
\* passes to call(), the per-call timeout overrides it passes, and the values the
\* counterpart's handlers return.
OptionSets ==
    [targetOrigin : {"https://a", "*"}, channel : {"default"},
     maxRetries : -1..MaxRetries, isRetryable : {"default", "always"},
     timeout : {2}, retryDelay : {1}, retryBackoff : {2}, maxRetryDelay : {3},
     handshakeTimeout : {2},
     payloads : {{"p1"}}, overrides : {{NoOverride}}, values : {{"v1"}}]
ClassOptions ==
    [targetOrigin |-> "*", channel |-> "default", maxRetries |-> 0, isRetryable |-> "default",
     timeout |-> 2, retryDelay |-> 1, retryBackoff |-> 2, maxRetryDelay |-> 3,
     handshakeTimeout |-> 2,
     payloads |-> {"p1"}, overrides |-> {NoOverride}, values |-> {"v1"}]
\* the options of the runs that follow the clock
TimedOptionSets ==
    [targetOrigin : {"*"}, channel : {"default"},
     maxRetries : {MaxRetries}, isRetryable : {"default", "always"},
     timeout : {2}, retryDelay : {1, 2}, retryBackoff : {1, 2}, maxRetryDelay : {3},
     handshakeTimeout : {2},
     payloads : {{"p1"}}, overrides : {{NoOverride}}, values : {{"v1"}}]
TimedClassOptions ==
    { [ClassOptions EXCEPT !.retryDelay = d, !.handshakeTimeout = t] :
         d \in {0, 1}, t \in {2, 3} }

\* a bridge of kind k constructed with one of the option records opts
Constructed(k, opts) ==
    /\ kind = k
    /\ allowedOrigins \in IF kind = "core" THEN {<< >>} ELSE OriginConfigs
    /\ options \in opts
    /\ now = 0
    /\ issued = << >>
    /\ isDestroyed = FALSE
    /\ pendingRequests = {}
    /\ minted = 0
    /\ state = "disconnected"
    /\ targetWindow = FALSE
    /\ parentOrigin = NoOrigin
    /\ listening = (kind # "parent")
    /\ pending = {}
    /\ timers = {}
    /\ handshakeResolve = Null
    /\ pendingHandshakeId = Null
    /\ remoteMethods = {}
    /\ parentMethods = {}
    /\ counter = 0
    /\ sent = {}
    /\ calls = << >>
    /\ connects = << >>
    /\ conn = IdleConn
    /\ inbound = << >>
    /\ destroyCalled = FALSE
    /\ last = Op("init")

\* the same, facing a counterpart whose origin is left open
InitOf(k, opts) == Constructed(k, opts) /\ childOrigin = NoOrigin

Init ==
    \E k \in {"parent", "child", "core"} :
       InitOf(k, IF k = "core" THEN OptionSets ELSE {ClassOptions})

\* ------------------------------------------------------ ParentBridge.connect
\* history: when the connect() the loop serves was called
StartedAt == IF conn.pc = "idle" THEN now ELSE conn.t0

\* connect(): the catch block
ConnectCatch(rec, cons, tms, code) ==
    /\ timers' = tms
    /\ conn' = IdleConn
    /\ state' = "disconnected"
    /\ listening' = FALSE
    /\ targetWindow' = FALSE
    /\ connects' = [cons EXCEPT ![rec] = code]

\* a handshake loop that gives up after its first attempt
attemptsRemainNever(attempt) == FALSE

\* a handshake loop that makes one attempt too many
attemptsRemainOneMore(attempt) == attempt <= handshakeRetries

\* performHandshake(): attempt < this.handshakeRetries
attemptsRemain(attempt) == attempt < handshakeRetries

\* performHandshake(): the catch block of one attempt and the loop's exit; lastError is
\* the error the attempt threw
PerformHandshakeCatch(attempt, rec, st, lis, tw, cons, tms, lastError) ==
    IF attemptsRemain(attempt)
    THEN /\ timers' = tms \cup {SleepTimer}
         /\ conn' = [pc |-> "sleep", attempt |-> attempt, tok |-> Null, rec |-> rec,
                      t0 |-> StartedAt, at |-> now]
         /\ state' = st
         /\ listening' = lis
         /\ targetWindow' = tw
         /\ connects' = cons
    ELSE ConnectCatch(rec, cons, tms,
                      IF lastError = TIMEOUT THEN HANDSHAKE_FAILED
                      ELSE HANDSHAKE_FAILED_UNSENT)

\* attemptHandshake(timeoutMs) with sendHandshake() and postMessage()
AttemptHandshake(attempt, rec, st, lis, tw, cons, tms) ==
    LET id == counter + 1 IN
    /\ counter' = id
    /\ handshakeResolve' = id
    /\ pendingHandshakeId' = id
    /\ IF tw
       THEN /\ sent' = sent \cup {Msg(HANDSHAKE_REQUEST, id, Null, "", FALSE, "", DOMAIN handlers)}
            /\ timers' = tms \cup {HandshakeTimer(id)}
            /\ conn' = [pc |-> "await", attempt |-> attempt, tok |-> id, rec |-> rec,
                         t0 |-> StartedAt, at |-> now]
            /\ state' = st
            /\ listening' = lis
            /\ targetWindow' = tw
            /\ connects' = cons
       ELSE /\ sent' = sent
            /\ PerformHandshakeCatch(attempt, rec, st, lis, tw, cons,
                                     tms \cup {HandshakeTimer(id)}, NOT_CONNECTED)

\* connect(), for a target whose window is available (getTargetWindow does not throw)
\* a connect() that never notices the handshake in progress
connectInProgressUnseen == FALSE

\* connect(): `this.state === "connecting"`
connectInProgress == state = "connecting"

\* a connect() that never notices the established connection
alreadyConnectedUnseen == FALSE

\* connect(): `this.state === "connected"`
alreadyConnected == state = "connected"

Connect ==
    /\ kind = "parent"
    /\ Len(connects) < MaxConnects
    /\ last' = Op("connect")
    /\ UNCHANGED << config, core, parentOrigin, pending, remoteMethods, parentMethods,
                    calls, inbound, destroyCalled >>
    /\ IF state = "destroyed"
       THEN /\ connects' = Append(connects, DESTROYED)
            /\ UNCHANGED << state, targetWindow, listening, timers, handshakeResolve,
                            pendingHandshakeId, counter, sent, conn >>
       ELSE IF alreadyConnected
       THEN /\ connects' = Append(connects, "ok")
            /\ UNCHANGED << state, targetWindow, listening, timers, handshakeResolve,
                            pendingHandshakeId, counter, sent, conn >>
       ELSE IF connectInProgress
       THEN /\ connects' = Append(connects, ALREADY_IN_PROGRESS)
            /\ UNCHANGED << state, targetWindow, listening, timers, handshakeResolve,
                            pendingHandshakeId, counter, sent, conn >>
       ELSE AttemptHandshake(1, Len(connects) + 1, "connecting", TRUE, TRUE,
                             Append(connects, "pending"), timers)

\* the setTimeout callback of attemptHandshake, for the attempt `tok`
HandshakeTimeout(tok) ==
    /\ HandshakeTimer(tok) \in timers
    /\ last' = Op("handshakeTimeout")
    /\ handshakeResolve' = Null
    /\ IF conn.pc = "await" /\ conn.tok = tok
       THEN PerformHandshakeCatch(conn.attempt, conn.rec, state, listening, targetWindow,
                                  connects, timers \ {HandshakeTimer(tok)}, TIMEOUT)
       ELSE /\ timers' = timers \ {HandshakeTimer(tok)}
            /\ UNCHANGED << conn, state, listening, targetWindow, connects >>
    /\ UNCHANGED << config, core, parentOrigin, pending, pendingHandshakeId,
                    remoteMethods, parentMethods, counter, sent, calls, inbound,
                    destroyCalled >>

\* performHandshake(): sleep(retryDelay) is over, the next attempt starts
SleepDone ==
    /\ SleepTimer \in timers
    /\ last' = Op("sleepDone")
    /\ AttemptHandshake(conn.attempt + 1, conn.rec, state, listening, targetWindow,
                        connects, timers \ {SleepTimer})
    /\ UNCHANGED << config, core, parentOrigin, pending, remoteMethods,
                    parentMethods, calls, inbound, destroyCalled >>


\* ----------------------------------------------------------------- workload
\* A behaviour exercises the bridge in one role: as a caller, as a responder to inbound
\* requests, or as a sender of notifications.
Notified == \E x \in sent : x.type = FIRE_AND_FORGET
mayActAsCaller == Len(inbound) = 0 /\ ~Notified
mayActAsResponder == Len(calls) = 0 /\ ~Notified
mayActAsNotifier == Len(calls) = 0 /\ Len(inbound) = 0

\* ---------------------------------------------------------------- call()
\* a call() that only refuses a destroyed bridge
mayCallUnlessDestroyed == state # "destroyed"

\* the guard of call(): this.state === "connected"
mayCall == state = "connected"

\* a call() that ignores the per-call override
callTimeoutDefault(override) == options.timeout

\* call(): options?.timeout ?? this.timeout
callTimeout(override) == IF override = NoOverride THEN options.timeout ELSE override

\* call(method, payload, options)
Call(m, payload, override) ==
    /\ kind \in {"parent", "child"}
    /\ Len(calls) < MaxCalls
    /\ mayActAsCaller
    /\ last' = Op("call")
    /\ UNCHANGED << config, core, state, targetWindow, parentOrigin, listening, handshakeResolve,
                    pendingHandshakeId, remoteMethods, parentMethods, connects, conn,
                    inbound, destroyCalled >>
    /\ IF ~mayCall
       THEN /\ calls' = Reject(Append(calls, [NewCall(m) EXCEPT !.payload = payload,
                                                               !.override = override]),
                                Len(calls) + 1, notConnected)
            /\ UNCHANGED << counter, timers, pending, sent >>
       ELSE LET id == counter + 1
                rec == [NewCall(m) EXCEPT !.id = id, !.payload = payload,
                                          !.override = override,
                                          !.timeout = callTimeout(override),
                                          !.sentAt = now]
            IN
            /\ counter' = id
            /\ timers' = timers \cup {CallTimer(id)}
            /\ pending' = pending \cup {id}
            /\ IF canPost
               THEN /\ sent' = sent \cup {[Msg(REQUEST, id, Null, m, FALSE, "", {})
                                            EXCEPT !.data = payload]}
                    /\ calls' = Append(calls, [rec EXCEPT !.nsent = 1])
               ELSE /\ sent' = sent
                    /\ calls' = Reject(Append(calls, rec), Len(calls) + 1, notConnected)

\* the setTimeout callback of call(), for the request `id`
CallTimeout(id) ==
    /\ kind \in {"parent", "child"}
    /\ CallTimer(id) \in timers
    /\ last' = Op("callTimeout")
    /\ timers' = timers \ {CallTimer(id)}
    /\ pending' = pending \ {id}
    /\ LET c == CallOf(id) IN
       calls' = [Reject(calls, c, timeout(calls[c].method, calls[c].timeout))
                    EXCEPT ![c].ntimeouts = @ + 1, ![c].failedAt = now]
    /\ UNCHANGED << config, core, state, targetWindow, parentOrigin, listening, handshakeResolve,
                    pendingHandshakeId, remoteMethods, parentMethods, counter, sent,
                    connects, conn, inbound, destroyCalled >>

\* ---------------------------------------------------------------- destroy()
\* a destroy() that drops the entries without rejecting them
RejectNone(cs, keys, code) == cs

\* the loop of destroy() over the pending map: reject each entry
RejectAll(cs, keys, code) ==
    [c \in 1..Len(cs) |->
        IF cs[c].id \in keys
        THEN [cs[c] EXCEPT !.pc = "done",
                           !.outcome = IF @ = "" THEN code ELSE @,
                           !.errmsg = IF cs[c].outcome = "" THEN destroyed.message ELSE @,
                           !.lasterr = code,
                           !.settles = @ + 1]
        ELSE cs[c]]

\* a destroy() that leaves the timers armed
ClearNone(tms, keys) == tms

\* the loop of destroy() over the pending map: clearTimeout of each entry
ClearAll(tms, keys) == tms \ { CallTimer(id) : id \in keys }

\* destroy()
Destroy ==
    /\ kind \in {"parent", "child"}
    /\ last' = Op("destroy")
    /\ destroyCalled' = TRUE
    /\ UNCHANGED << config, core, remoteMethods, parentMethods, counter, sent, connects, conn,
                    inbound >>
    /\ IF state = "destroyed"
       THEN UNCHANGED << state, targetWindow, parentOrigin, listening, pending, timers,
                         handshakeResolve, pendingHandshakeId, calls >>
       ELSE /\ timers' = ClearAll(timers, pending)
            /\ calls' = RejectAll(calls, pending, DESTROYED)
            /\ pending' = {}
            /\ listening' = FALSE
            /\ state' = "destroyed"
            /\ IF kind = "parent"
               THEN /\ targetWindow' = FALSE
                    /\ handshakeResolve' = Null
                    /\ pendingHandshakeId' = Null
                    /\ UNCHANGED parentOrigin
               ELSE /\ parentOrigin' = NoOrigin
                    /\ UNCHANGED << targetWindow, handshakeResolve, pendingHandshakeId >>

\* ------------------------------------------------------- inbound messages
\* handleHandshakeAck(ack)
handleHandshakeAck(ack) ==
    /\ UNCHANGED core
    /\ UNCHANGED << targetWindow, parentOrigin, listening, pending, parentMethods, counter,
                    sent, calls, inbound >>
    /\ IF ~ackMatches(ack.requestId)
       THEN UNCHANGED << remoteMethods, pendingHandshakeId, handshakeResolve, timers, state,
                         connects, conn >>
       ELSE /\ remoteMethods' = ack.methods
            /\ pendingHandshakeId' = Null
            /\ handshakeResolve' = Null
            /\ IF handshakeResolve = Null
               THEN UNCHANGED << timers, state, connects, conn >>
               ELSE /\ timers' = timers \ {HandshakeTimer(handshakeResolve)}
                    /\ IF conn.pc = "await" /\ conn.tok = handshakeResolve
                       THEN /\ state' = "connected"
                            /\ connects' = [connects EXCEPT ![conn.rec] = "ok"]
                            /\ conn' = IdleConn
                       ELSE UNCHANGED << state, connects, conn >>

\* handleResponse(response)
handleResponse(response) ==
    /\ UNCHANGED core
    /\ UNCHANGED << state, targetWindow, parentOrigin, listening, handshakeResolve,
                    pendingHandshakeId, remoteMethods, parentMethods, counter, sent,
                    connects, conn, inbound >>
    /\ LET key == pendingGet(response.requestId) IN
       IF key = Null
       THEN UNCHANGED << pending, timers, calls >>
       ELSE /\ timers' = timers \ {CallTimer(key)}
            /\ pending' = pending \ {key}
            /\ calls' = [(IF response.success
                          THEN Resolve(calls, CallOf(key), response.data)
                          ELSE IF response.code = NoError
                          THEN Throws(calls, CallOf(key))
                          ELSE Reject(calls, CallOf(key),
                                      BridgeError(mapErrorCode(response.code),
                                                  response.message, response.details)))
                         EXCEPT ![CallOf(key)].replied = TRUE]

\* sendSuccessResponse(requestId, data)
successResponse(requestId, data) ==
    [Msg(RESPONSE, counter + 1, requestId, "", TRUE, "", {}) EXCEPT !.data = data]

\* sendErrorResponse(requestId, error): error.toJSON()
errorResponse(requestId, error) ==
    [Msg(RESPONSE, counter + 1, requestId, "", FALSE, error.code, {})
        EXCEPT !.message = error.message, !.details = error.details]

\* sendSuccessResponse / sendErrorResponse for the inbound request at index r
SendResponse(r, response) ==
    IF canPost
    THEN /\ counter' = counter + 1
         /\ sent' = sent \cup {response}
         /\ inbound' = [inbound EXCEPT ![r].responses = @ + 1, ![r].status = "done"]
    ELSE /\ inbound' = [inbound EXCEPT ![r].escaped = TRUE, ![r].status = "done"]
         /\ UNCHANGED << counter, sent >>

\* handleRequest(request) up to the await of the handler
handleRequest(request) ==
    /\ UNCHANGED core
    /\ UNCHANGED << state, targetWindow, parentOrigin, listening, pending, timers,
                    handshakeResolve, pendingHandshakeId, remoteMethods, parentMethods,
                    calls, connects, conn >>
    /\ LET r == Len(inbound) + 1
           rec == [id |-> request.id, method |-> request.method, status |-> "running",
                   responses |-> 0, escaped |-> FALSE, payload |-> request.data]
       IN IF request.method \notin DOMAIN handlers
          THEN IF canPost
               THEN /\ counter' = counter + 1
                    /\ sent' = sent \cup {errorResponse(request.id,
                                                        methodNotFound(request.method))}
                    /\ inbound' = Append(inbound, [rec EXCEPT !.responses = 1,
                                                              !.status = "done"])
               ELSE /\ inbound' = Append(inbound, [rec EXCEPT !.escaped = TRUE,
                                                              !.status = "done"])
                    /\ UNCHANGED << counter, sent >>
          ELSE /\ inbound' = Append(inbound, rec)
               /\ UNCHANGED << counter, sent >>

\* handleRequest(request) after the await: the handler returned or threw
HandlerCompletes(r) ==
    /\ kind \in {"parent", "child"}
    /\ r \in 1..Len(inbound)
    /\ inbound[r].status = "running"
    /\ last' = Op("handlerCompletes")
    /\ IF handlers[inbound[r].method] = "returns"
       THEN SendResponse(r, successResponse(inbound[r].id, handlerResult[inbound[r].payload]))
       ELSE SendResponse(r, errorResponse(inbound[r].id,
                                          handlerError(inbound[r].method, "boom!")))
    /\ UNCHANGED << config, core, state, targetWindow, parentOrigin, listening, pending, timers,
                    handshakeResolve, pendingHandshakeId, remoteMethods, parentMethods,
                    calls, connects, conn, destroyCalled >>

\* an acknowledgment that names no request
ackUncorrelated(request) ==
    Msg(HANDSHAKE_ACK, counter + 1, Null, "", FALSE, "", DOMAIN handlers)

\* handleHandshakeRequest: the HandshakeAck built for `request`
ackFor(request) ==
    Msg(HANDSHAKE_ACK, counter + 1, request.id, "", FALSE, "", DOMAIN handlers)

\* handleHandshakeRequest(request, origin, source)
handleHandshakeRequest(request, origin) ==
    /\ UNCHANGED core
    /\ parentOrigin' = origin
    /\ parentMethods' = IF request.methods # Absent THEN request.methods ELSE parentMethods
    /\ counter' = counter + 1
    /\ sent' = sent \cup {ackFor(request)}
    /\ state' = "connected"
    /\ UNCHANGED << targetWindow, listening, pending, timers, handshakeResolve,
                    pendingHandshakeId, remoteMethods, calls, connects, conn, inbound >>

\* everything but the configuration and the history
bridge ==
    << state, targetWindow, parentOrigin, listening, pending, timers, handshakeResolve,
       pendingHandshakeId, remoteMethods, parentMethods, counter, sent, calls, connects,
       conn, inbound, isDestroyed, pendingRequests, minted >>

\* The message events the environment may deliver in the current state.
\* The counterpart answers with ids it has been sent, with null, or with an id of its own
\* making (counter + 1: never minted here).  A behaviour exercises the bridge as a caller
\* or as a responder: inbound requests arrive only at a bridge that has made no call.
SentIds(type) == { x.id : x \in { y \in sent : y.type = type } }
\* the errors a counterpart serializes into a failure Response: one this library makes,
\* and one with a code of the counterpart's own and details
RemoteErrors ==
    { methodNotFound("add"), [code |-> "bogus", message |-> << "custom" >>, details |-> "d1"] }
Events ==
    { Msg(HANDSHAKE_ACK, 0, rid, "", FALSE, "", ms) :
         rid \in SentIds(HANDSHAKE_REQUEST) \cup {Null, counter + 1}, ms \in PeerMethodSets }
    \cup { [Msg(RESPONSE, 0, rid, "", TRUE, "", {}) EXCEPT !.data = v] :
             rid \in SentIds(REQUEST) \cup {counter + 1}, v \in options.values }
    \cup { [Msg(RESPONSE, 0, rid, "", FALSE, e.code, {})
                EXCEPT !.message = e.message, !.details = e.details] :
             rid \in SentIds(REQUEST) \cup {counter + 1}, e \in RemoteErrors }
    \cup { [Msg(REQUEST, Len(inbound) + 1, Null, m, FALSE, "", {}) EXCEPT !.data = p] :
             m \in IF Len(inbound) < MaxInbound /\ mayActAsResponder THEN Methods ELSE {},
             p \in options.payloads }
    \cup { Msg(HANDSHAKE_REQUEST, id, Null, "", FALSE, "", ms) :
             id \in IF Cardinality({x \in sent : x.type = HANDSHAKE_ACK}) < MaxHandshakes
                    THEN {Cardinality({x \in sent : x.type = HANDSHAKE_ACK}) + 1} ELSE {},
             ms \in PeerMethodSets \cup {Absent} }
    \cup { Msg("other", 0, Null, "", FALSE, "", {}) }

\* history: the sender's origin is in the bridge's allow-set (a wildcard allows all)
Trusted(origin) ==
    IF kind = "core"
    THEN options.targetOrigin = "*" \/ origin = options.targetOrigin
    ELSE "*" \in Range(allowedOrigins) \/ origin \in Range(allowedOrigins)

\* history: the correlation id a response or acknowledgment refers to
Refers(data) ==
    IF data.type \in {RESPONSE, HANDSHAKE_ACK} THEN data.requestId
    ELSE IF data.type \in {RPC_RESPONSE, RPC_ERROR} THEN data.id
    ELSE Null

\* history: the event addresses live bookkeeping (it acts if it is let through)
Hit(data) ==
    \/ data.type = HANDSHAKE_ACK /\ data.requestId = pendingHandshakeId
    \/ data.type = RESPONSE /\ data.requestId \in pending
    \/ data.type \in {RPC_RESPONSE, RPC_ERROR} /\ data.id \in pendingRequests
                                               /\ data.channel = options.channel
    \/ data.type \in {REQUEST, HANDSHAKE_REQUEST}
    \/ data.type \in {RPC_REQUEST, FIRE_AND_FORGET} /\ data.channel = options.channel

\* history: the tag of a message event.  "staleAck": an acknowledgment from the counterpart
\* that does not name the handshake attempt the connect loop is waiting on; "crossChannel":
\* a message of another channel than the bridge's (with the pending entry its id names, if
\* any); "unmatched": a
\* response whose correlation id is the key of no pending entry; "message": an
\* event that addresses nothing; "untrusted": the origin is outside the allow-set;
\* "foreign": the event's source is not the counterpart window; otherwise the message type
\* and the correlation id it refers to (for a handshake request: its own id, its advertised
\* methods and the origin it came from).
Tag(origin, source, data) ==
    IF /\ data.type = HANDSHAKE_ACK /\ Trusted(origin) /\ source = "target"
       /\ conn.pc = "await" /\ data.requestId # conn.tok
    THEN [op |-> "staleAck", rid |-> data.requestId, methods |-> {}, origin |-> NoOrigin,
          msg |-> NoMsg]
    ELSE IF /\ data.type \in {RPC_REQUEST, RPC_RESPONSE, RPC_ERROR, FIRE_AND_FORGET}
            /\ data.channel # options.channel
    THEN [op |-> "crossChannel",
          rid |-> IF Refers(data) \in pendingRequests THEN Refers(data) ELSE Null,
          methods |-> {}, origin |-> NoOrigin, msg |-> NoMsg]
    ELSE IF /\ data.type \in {RESPONSE, RPC_RESPONSE, RPC_ERROR}
            /\ Refers(data) \notin pending \cup pendingRequests
    THEN [op |-> "unmatched", rid |-> Refers(data), methods |-> {}, origin |-> NoOrigin,
          msg |-> NoMsg]
    ELSE IF ~Hit(data) THEN Op("message")
    ELSE IF ~Trusted(origin) THEN Op("untrusted")
    ELSE IF source # "target" THEN Op("foreign")
    ELSE IF data.type = HANDSHAKE_REQUEST
    THEN [op |-> data.type, rid |-> data.id, methods |-> data.methods, origin |-> origin,
          msg |-> data]
    ELSE [op |-> data.type, rid |-> Refers(data), methods |-> data.methods,
          origin |-> NoOrigin, msg |-> data]

\* ParentBridge.handleMessage(event)
ParentHandleMessage(origin, source, data) ==
    /\ kind = "parent"
    /\ listening
    /\ data.type # HANDSHAKE_REQUEST
    /\ last' = Tag(origin, source, data)
    /\ UNCHANGED << config, destroyCalled >>
    /\ IF ~isValidOrigin(origin)
       THEN UNCHANGED bridge
       ELSE IF ~(source = "target" /\ targetWindow)
       THEN UNCHANGED bridge
       ELSE IF data.type = HANDSHAKE_ACK THEN handleHandshakeAck(data)
       ELSE IF data.type = RESPONSE THEN handleResponse(data)
       ELSE IF data.type = REQUEST THEN handleRequest(data)
       ELSE UNCHANGED bridge

\* ChildBridge.handleMessage(event)
ChildHandleMessage(origin, source, data) ==
    /\ kind = "child"
    /\ listening
    /\ data.type # HANDSHAKE_ACK
    /\ last' = Tag(origin, source, data)
    /\ UNCHANGED << config, destroyCalled >>
    /\ IF ~isValidOrigin(origin)
       THEN UNCHANGED bridge
       ELSE IF source # "target"
       THEN UNCHANGED bridge
       ELSE IF data.type = HANDSHAKE_REQUEST THEN handleHandshakeRequest(data, origin)
       ELSE IF state # "connected" THEN UNCHANGED bridge
       ELSE IF data.type = REQUEST THEN handleRequest(data)
       ELSE IF data.type = RESPONSE THEN handleResponse(data)
       ELSE UNCHANGED bridge

\* ------------------------------------------------------------- createBridge
RetryTimer(c) == [t |-> "retry", n |-> c]

\* a generator that returns the id of a call's first attempt for each of its attempts
generateIdPerCall(c, attempt) == (c - 1) * (MaxRetries + 1) + 1

\* generateId(): a fresh random id (crypto.randomUUID).  No two draws are equal; the draw
\* made for attempt number `attempt` of the call at index c is named by (c, attempt).
generateId(c, attempt) == (c - 1) * (MaxRetries + 1) + attempt + 1
\* an id no draw of this bridge returns
ForeignId == MaxCalls * (MaxRetries + 1) + 1

\* a predicate that retries whatever the error
isRetryableAlways(errclass) == TRUE

\* options.retry.isRetryable(error); the default is `error instanceof RpcTimeoutError`
isRetryable(errclass) ==
    IF options.isRetryable = "default" THEN errclass = "RpcTimeoutError" ELSE TRUE

\* a retry loop that stops one attempt early
isLastAttemptEarly(attempt) == attempt + 1 >= options.maxRetries

\* callMethod: a retry loop that never reaches its last attempt
isLastAttemptNever(attempt) == FALSE

\* callMethod: isLastAttempt = attempt === maxRetries
isLastAttempt(attempt) == attempt = options.maxRetries

\* a callMethod without the `maxRetries <= 0` shortcut
shouldRetryUnguarded(rec, errclass) ==
    ~isLastAttempt(rec.attempt) /\ isRetryable(errclass)

\* callMethod: the catch block decides to wait and reattempt
shouldRetry(rec, errclass) ==
    /\ options.maxRetries > 0
    /\ ~isLastAttempt(rec.attempt)
    /\ isRetryable(errclass)

\* x to the power n (Math.pow)
RECURSIVE Pow(_, _)
Pow(x, n) == IF n = 0 THEN 1 ELSE x * Pow(x, n - 1)

\* Math.min
Min(a, b) == IF a <= b THEN a ELSE b

\* a retry loop whose delay does not grow
calculateRetryDelayFlat(attempt) == Min(options.retryDelay, options.maxRetryDelay)

\* calculateRetryDelay(attempt)
calculateRetryDelay(attempt) ==
    LET delay == options.retryDelay * Pow(options.retryBackoff, attempt)
    IN Min(delay, options.maxRetryDelay)

\* new RpcTimeoutError(method, timeout): the message of the error
RpcTimeoutMessage(method, timeoutMs) ==
    << "RPC call to \"", method, "\" timed out after ", ToString(timeoutMs), "ms" >>
\* new RpcMethodNotFoundError(method): the message of the error
RpcMethodNotFoundMessage(method) == << "Method \"", method, "\" not found" >>

\* the promise callMethod returned settles
Finished(rec, outcome, errclass) ==
    [rec EXCEPT !.pc = "done",
                !.outcome = IF @ = "" THEN outcome ELSE @,
                !.errclass = IF rec.outcome = "" THEN errclass ELSE @,
                !.settles = @ + 1]

\* callMethod: an attempt's promise rejected with (code, errclass)
Rejected(rec, code, errclass) ==
    IF shouldRetry(rec, errclass)
    THEN [rec EXCEPT !.pc = "backoff", !.lasterr = code, !.failedAt = now,
                     !.delay = calculateRetryDelay(rec.attempt)]
    ELSE Finished([rec EXCEPT !.lasterr = code, !.failedAt = now], code, errclass)

\* executeCall(method, args) for the call at index c
executeCall(cs, c, tms) ==
    LET id == generateId(c, cs[c].attempt) IN
    /\ minted' = minted + 1
    /\ timers' = tms \cup {CallTimer(id)}
    /\ pendingRequests' = pendingRequests \cup {id}
    /\ sent' = sent \cup {[RpcMsg(RPC_REQUEST, options.channel, id, cs[c].method, "")
                              EXCEPT !.data = cs[c].payload]}
    /\ calls' = [cs EXCEPT ![c].id = id, ![c].pc = "waiting", ![c].nsent = @ + 1,
                            ![c].sentAt = now]

\* callMethod(method, args): bridge.call.<method>(...) and bridge.invoke(method, ...)
callMethod(m, args) ==
    /\ kind = "core"
    /\ Len(calls) < MaxCalls
    /\ mayActAsCaller
    /\ last' = Op("call")
    /\ IF isDestroyed
       THEN /\ calls' = Append(calls,
                               Finished([NewCall(m) EXCEPT
                                            !.payload = args,
                                            !.errmsg = << "Bridge has been destroyed" >>],
                                        "DESTROYED", "RpcError"))
            /\ UNCHANGED << minted, timers, pendingRequests, sent >>
       ELSE executeCall(Append(calls, [NewCall(m) EXCEPT !.payload = args,
                                                         !.timeout = options.timeout]),
                        Len(calls) + 1, timers)
    /\ UNCHANGED << config, class, listening, isDestroyed, inbound, destroyCalled >>

\* the setTimeout callback of executeCall, for the request `id`
RpcTimeout(id) ==
    /\ kind = "core"
    /\ CallTimer(id) \in timers
    /\ last' = Op("callTimeout")
    /\ pendingRequests' = pendingRequests \ {id}
    /\ LET c == CallOf(id)
           rec == Rejected([calls[c] EXCEPT
                               !.ntimeouts = @ + 1,
                               !.errmsg = RpcTimeoutMessage(calls[c].method, options.timeout)],
                           "TIMEOUT", "RpcTimeoutError")
       IN /\ calls' = [calls EXCEPT ![c] = rec]
          /\ timers' = (timers \ {CallTimer(id)})
                          \cup (IF rec.pc = "backoff" THEN {RetryTimer(c)} ELSE {})
    /\ UNCHANGED << config, class, listening, isDestroyed, minted, sent, inbound,
                    destroyCalled >>

\* a retry loop that does not look at the bridge after its sleep
destroyedDuringDelayUnseen == FALSE

\* callMethod: `if (isDestroyed)` after `await sleep(delay)`
destroyedDuringDelay == isDestroyed

\* callMethod: sleep(delay) is over; the destroyed check and the next attempt
RetryDelayDone(c) ==
    /\ kind = "core"
    /\ RetryTimer(c) \in timers
    /\ last' = Op("retryDelayDone")
    /\ IF destroyedDuringDelay
       THEN /\ calls' = [calls EXCEPT ![c] =
                            Finished([@ EXCEPT !.errmsg = << "Bridge has been destroyed" >>],
                                     "DESTROYED", "RpcError")]
            /\ timers' = timers \ {RetryTimer(c)}
            /\ UNCHANGED << minted, pendingRequests, sent >>
       ELSE executeCall([calls EXCEPT ![c].attempt = @ + 1], c, timers \ {RetryTimer(c)})
    /\ UNCHANGED << config, class, listening, isDestroyed, inbound, destroyCalled >>

\* a lookup that finds an entry whatever the id
pendingRequestsGetAny(id) ==
    IF pendingRequests = {} THEN Null ELSE CHOOSE k \in pendingRequests : TRUE

\* this.pendingRequests.get(id): the key found, or Null
pendingRequestsGet(id) == IF id \in pendingRequests THEN id ELSE Null

\* createBridge: handleResponse(message)
rpcHandleResponse(message) ==
    /\ UNCHANGED << minted, sent, inbound, isDestroyed, listening >>
    /\ LET key == pendingRequestsGet(message.id) IN
       IF key = Null
       THEN UNCHANGED << pendingRequests, timers, calls >>
       ELSE /\ timers' = timers \ {CallTimer(key)}
            /\ pendingRequests' = pendingRequests \ {key}
            /\ calls' = [calls EXCEPT ![CallOf(key)] =
                            Finished([@ EXCEPT !.replied = TRUE, !.value = message.data],
                                     "ok", "")]

\* createBridge: handleError(message)
rpcHandleError(message) ==
    /\ UNCHANGED << minted, sent, inbound, isDestroyed, listening >>
    /\ LET key == pendingRequestsGet(message.id) IN
       IF key = Null
       THEN UNCHANGED << pendingRequests, timers, calls >>
       ELSE LET c == CallOf(key)
                rec == IF message.code = NoError
                       THEN [Throws(calls, c)[c] EXCEPT !.replied = TRUE]
                       ELSE Rejected([calls[c] EXCEPT !.replied = TRUE,
                                                      !.errmsg = message.message],
                                     message.code, "RpcError")
            IN /\ pendingRequests' = pendingRequests \ {key}
               /\ calls' = [calls EXCEPT ![c] = rec]
               /\ timers' = (timers \ {CallTimer(key)})
                               \cup (IF rec.pc = "backoff" THEN {RetryTimer(c)} ELSE {})

\* createBridge: handleRequest(message, source) up to the await of the handler
rpcHandleRequest(message) ==
    /\ UNCHANGED << minted, pendingRequests, timers, calls, isDestroyed, listening >>
    /\ LET rec == [id |-> message.id, method |-> message.method, status |-> "running",
                   responses |-> 0, escaped |-> FALSE, payload |-> message.data]
       IN IF message.method \notin DOMAIN handlers
          THEN /\ sent' = sent \cup {[RpcMsg(RPC_ERROR, options.channel, message.id, "",
                                             "METHOD_NOT_FOUND")
                                         EXCEPT !.message =
                                                   RpcMethodNotFoundMessage(message.method)]}
               /\ inbound' = Append(inbound, [rec EXCEPT !.responses = 1, !.status = "done"])
          ELSE IF message.data = NoArgs
          THEN \* handler(...args) throws a TypeError inside the try: sendError at once
               /\ sent' = sent \cup {[RpcMsg(RPC_ERROR, options.channel, message.id, "", "")
                                         EXCEPT !.message = << "(TypeError)" >>]}
               /\ inbound' = Append(inbound, [rec EXCEPT !.responses = 1, !.status = "done"])
          ELSE /\ inbound' = Append(inbound, rec)
               /\ UNCHANGED sent

\* a handleFireAndForget that reports a missing handler to the sender
handleFireAndForgetAnswering(message) ==
    /\ UNCHANGED << minted, pendingRequests, timers, calls, isDestroyed, listening >>
    /\ IF message.method \notin DOMAIN handlers
       THEN /\ sent' = sent \cup {[RpcMsg(RPC_ERROR, options.channel, Null, "",
                                           "METHOD_NOT_FOUND")
                                       EXCEPT !.message =
                                                 RpcMethodNotFoundMessage(message.method)]}
            /\ UNCHANGED inbound
       ELSE /\ inbound' = Append(inbound,
                                 [id |-> Null, method |-> message.method, status |-> "running",
                                  responses |-> 0, escaped |-> FALSE,
                                  payload |-> message.data])
            /\ UNCHANGED sent

\* createBridge: handleFireAndForget(message); the record's id is Null
handleFireAndForget(message) ==
    /\ UNCHANGED << minted, pendingRequests, timers, calls, isDestroyed, listening, sent >>
    /\ IF message.method \notin DOMAIN handlers
       THEN UNCHANGED inbound
       ELSE inbound' = Append(inbound,
                              [id |-> Null, method |-> message.method, status |-> "running",
                               responses |-> 0, escaped |-> FALSE, payload |-> message.data])

\* createBridge: the handler of the inbound message at index r returned or threw
RpcHandlerCompletes(r) ==
    /\ kind = "core"
    /\ r \in 1..Len(inbound)
    /\ inbound[r].status = "running"
    /\ last' = Op("handlerCompletes")
    /\ IF inbound[r].id = Null
       THEN /\ inbound' = [inbound EXCEPT ![r].status = "done"]
            /\ UNCHANGED sent
       ELSE /\ inbound' = [inbound EXCEPT ![r].status = "done", ![r].responses = @ + 1]
            /\ sent' = sent \cup
                 { IF handlers[inbound[r].method] = "returns"
                   THEN [RpcMsg(RPC_RESPONSE, options.channel, inbound[r].id, "", "")
                            EXCEPT !.data = handlerResult[inbound[r].payload]]
                   ELSE [RpcMsg(RPC_ERROR, options.channel, inbound[r].id, "", "")
                            EXCEPT !.message = << "boom!" >>] }
    /\ UNCHANGED << config, class, listening, isDestroyed, pendingRequests, minted, timers,
                    calls, destroyCalled >>

\* notify(method, ...args)
notify(m, args) ==
    /\ kind = "core"
    /\ last' = Op("notify")
    /\ IF isDestroyed
       THEN UNCHANGED sent
       ELSE LET message == [RpcMsg(FIRE_AND_FORGET, options.channel, Null, m, "")
                               EXCEPT !.data = args]
            IN /\ mayActAsNotifier
               /\ message \notin sent
               /\ sent' = sent \cup {message}
    /\ UNCHANGED << config, class, listening, isDestroyed, pendingRequests, minted, timers,
                    calls, inbound, destroyCalled >>

\* the bridge's destroy()
rpcDestroy ==
    /\ kind = "core"
    /\ last' = Op("destroy")
    /\ destroyCalled' = TRUE
    /\ isDestroyed' = TRUE
    /\ listening' = FALSE
    /\ LET cs == [c \in 1..Len(calls) |->
                    IF calls[c].id \in pendingRequests
                    THEN Rejected([calls[c] EXCEPT !.errmsg = << "Bridge destroyed" >>],
                                  "DESTROYED", "RpcError")
                    ELSE calls[c]]
       IN /\ calls' = cs
          /\ timers' = ClearAll(timers, pendingRequests)
                          \cup { RetryTimer(c) : c \in { d \in 1..Len(calls) :
                                   calls[d].id \in pendingRequests /\ cs[d].pc = "backoff" } }
    /\ pendingRequests' = {}
    /\ UNCHANGED << config, class, minted, sent, inbound >>

\* isRpcMessage(data)
isRpcMessage(data) == data.type \in {RPC_REQUEST, RPC_RESPONSE, RPC_ERROR, FIRE_AND_FORGET}

\* The message events the environment may deliver to a createBridge instance.
RpcEvents ==
    { [RpcMsg(RPC_RESPONSE, ch, id, "", "") EXCEPT !.data = v] :
         ch \in {"default", "other"}, id \in SentIds(RPC_REQUEST) \cup {ForeignId},
         v \in options.values }
    \cup { [RpcMsg(RPC_ERROR, ch, id, "", code)
                EXCEPT !.message = IF code = "METHOD_NOT_FOUND"
                                   THEN RpcMethodNotFoundMessage("add")
                                   ELSE << "remote: ", code >>] :
             ch \in {"default", "other"}, id \in SentIds(RPC_REQUEST) \cup {ForeignId},
             code \in {"METHOD_NOT_FOUND", "TIMEOUT"} }
    \cup { [RpcMsg(type, ch, IF type = RPC_REQUEST THEN Len(inbound) + 1 ELSE Null, m, "")
                EXCEPT !.data = p] :
             type \in {RPC_REQUEST, FIRE_AND_FORGET}, ch \in {"default", "other"},
             m \in IF Len(inbound) < MaxInbound /\ mayActAsResponder THEN Methods ELSE {},
             p \in options.payloads }
    \cup { [RpcMsg(FIRE_AND_FORGET, ch, Null, m, "") EXCEPT !.data = p] :
             ch \in {"default", "other"},
             m \in IF mayActAsResponder THEN Methods \ DOMAIN handlers ELSE {},
             p \in options.payloads }
    \cup { RpcMsg("other", "default", Null, "", "") }

\* a channel check that lets every channel through
sameChannelAny(data) == TRUE

\* handleMessage: data.channel === options.channel
sameChannel(data) == data.channel = options.channel

\* createBridge: handleMessage(event)
rpcHandleMessage(origin, source, data) ==
    /\ kind = "core"
    /\ listening
    /\ last' = Tag(origin, source, data)
    /\ UNCHANGED << config, class, destroyCalled >>
    /\ IF isDestroyed
       THEN UNCHANGED << core, listening, timers, sent, calls, inbound >>
       ELSE IF options.targetOrigin # "*" /\ origin # options.targetOrigin
       THEN UNCHANGED << core, listening, timers, sent, calls, inbound >>
       ELSE IF ~isRpcMessage(data)
       THEN UNCHANGED << core, listening, timers, sent, calls, inbound >>
       ELSE IF ~sameChannel(data)
       THEN UNCHANGED << core, listening, timers, sent, calls, inbound >>
       ELSE IF data.type = RPC_REQUEST THEN rpcHandleRequest(data)
       ELSE IF data.type = RPC_RESPONSE THEN rpcHandleResponse(data)
       ELSE IF data.type = RPC_ERROR THEN rpcHandleError(data)
       ELSE handleFireAndForget(data)

\* --------------------------------------------------------------------- Next
\* a ParentBridge
NextParent ==
    \/ Connect
    \/ \E tok \in 1..counter : HandshakeTimeout(tok)
    \/ SleepDone
    \/ \E m \in CallMethods, p \in options.payloads, o \in options.overrides : Call(m, p, o)
    \/ \E id \in 1..counter : CallTimeout(id)
    \/ Destroy
    \/ \E r \in 1..Len(inbound) : HandlerCompletes(r)
    \/ \E origin \in Origins, source \in {"target", "other"}, data \in Events :
          ParentHandleMessage(origin, source, data)

\* a ChildBridge
NextChild ==
    \/ \E m \in CallMethods, p \in options.payloads, o \in options.overrides : Call(m, p, o)
    \/ \E id \in 1..counter : CallTimeout(id)
    \/ Destroy
    \/ \E r \in 1..Len(inbound) : HandlerCompletes(r)
    \/ \E origin \in Origins, source \in {"target", "other"}, data \in Events :
          ChildHandleMessage(origin, source, data)

\* a bridge made by createBridge
NextRpc ==
    \/ \E m \in CallMethods, args \in options.payloads : callMethod(m, args)
    \/ \E id \in pendingRequests : RpcTimeout(id)
    \/ \E c \in 1..Len(calls) : RetryDelayDone(c)
    \/ \E r \in 1..Len(inbound) : RpcHandlerCompletes(r)
    \/ \E m \in CallMethods, args \in options.payloads : notify(m, args)
    \/ rpcDestroy
    \/ \E origin \in Origins, source \in {"target", "other"}, data \in RpcEvents :
          rpcHandleMessage(origin, source, data)

Next == NextParent \/ NextChild \/ NextRpc

\* any bridge of the repository
Spec == Init /\ [][Next]_vars

\* Timers: the host fires every armed timer that is not cleared (setTimeout).
TimerFires ==
    \/ \E tok \in 1..counter : HandshakeTimeout(tok)
    \/ SleepDone
    \/ \E id \in 1..counter : CallTimeout(id)
    \/ \E id \in pendingRequests : RpcTimeout(id)
    \/ \E c \in 1..Len(calls) : RetryDelayDone(c)
FairSpec == Spec /\ WF_vars(TimerFires)

\* one kind of bridge each
InitParent == InitOf("parent", {ClassOptions})
InitChild == InitOf("child", {ClassOptions})
InitRpc == InitOf("core", OptionSets)
SpecParent == InitParent /\ [][NextParent]_vars
SpecChild == InitChild /\ [][NextChild]_vars
SpecRpc == InitRpc /\ [][NextRpc]_vars

\* ------------------------------------------------------------------- time
\* when the host fires the armed timer t: setTimeout(callback, ms) counts from its call
Deadline(t) ==
    IF t.t = "call"
    THEN calls[CallOf(t.n)].sentAt
            + (IF kind = "core" THEN options.timeout ELSE calls[CallOf(t.n)].timeout)
    ELSE IF t.t = "retry" THEN calls[t.n].failedAt + calls[t.n].delay
    ELSE IF t.t = "handshake" THEN conn.at + options.handshakeTimeout
    ELSE conn.at + options.retryDelay
Due(t) == t \in timers /\ Deadline(t) <= now

\* Time passes; the host runs a timer's callback when its delay has elapsed.
Tick ==
    /\ now < MaxTime
    /\ \A t \in timers : ~Due(t)
    /\ now' = now + 1
    /\ UNCHANGED << kind, allowedOrigins, options, issued, childOrigin, bridge,
                    destroyCalled, last >>

\* createBridge under the clock: calls, their timeouts and their retry loops
NextTimedRpc ==
    \/ Tick
    \/ \E m \in CallMethods, args \in options.payloads : callMethod(m, args)
    \/ \E id \in pendingRequests : Due(CallTimer(id)) /\ RpcTimeout(id)
    \/ \E c \in 1..Len(calls) : Due(RetryTimer(c)) /\ RetryDelayDone(c)
    \/ \E id \in pendingRequests :
          rpcHandleMessage("https://a", "target",
                           [RpcMsg(RPC_ERROR, options.channel, id, "", "METHOD_NOT_FOUND")
                               EXCEPT !.message = RpcMethodNotFoundMessage("add")])
SpecTimedRpc == InitOf("core", TimedOptionSets) /\ [][NextTimedRpc]_vars

\* ParentBridge under the clock: connect() and a counterpart that never acknowledges
NextTimedParent ==
    \/ Tick
    \/ Connect
    \/ \E tok \in 1..counter : Due(HandshakeTimer(tok)) /\ HandshakeTimeout(tok)
    \/ Due(SleepTimer) /\ SleepDone
SpecTimedParent == InitOf("parent", TimedClassOptions) /\ [][NextTimedParent]_vars

\* Calls under the clock: a connected class bridge or a createBridge instance, a
\* counterpart that may answer, and per-call timeout overrides.
TimedCallClassOptions == { [ClassOptions EXCEPT !.overrides = {NoOverride, 0, 3}] }
\* the messages of the handshake and the responses to calls
CallEvents == { data \in Events : data.type \in {HANDSHAKE_REQUEST, HANDSHAKE_ACK, RESPONSE} }
RpcCallEvents == { data \in RpcEvents : data.type \in {RPC_RESPONSE, RPC_ERROR} }
TimedCallRpcOptions ==
    [targetOrigin : {"*"}, channel : {"default"},
     maxRetries : {0, 1}, isRetryable : {"default"},
     timeout : {2, 3}, retryDelay : {1}, retryBackoff : {2}, maxRetryDelay : {3},
     handshakeTimeout : {2},
     payloads : {{"p1"}}, overrides : {{NoOverride}}, values : {{"v1"}}]
InitTimedCall ==
    \E k \in {"parent", "child", "core"} :
       InitOf(k, IF k = "core" THEN TimedCallRpcOptions ELSE TimedCallClassOptions)
\* The clock is followed only while the timer of a call or of a retry is armed, and the
\* counterpart acknowledges a handshake before the clock moves.
NextTimedCall ==
    \/ (\E t \in timers : t.t \in {"call", "retry"}) /\ Tick
    \/ Connect
    \/ \E m \in CallMethods, p \in options.payloads, o \in options.overrides : Call(m, p, o)
    \/ \E id \in 1..counter : Due(CallTimer(id)) /\ CallTimeout(id)
    \/ Destroy
    \/ \E data \in CallEvents : ParentHandleMessage("https://a", "target", data)
    \/ \E data \in CallEvents : ChildHandleMessage("https://a", "target", data)
    \/ \E m \in CallMethods, args \in options.payloads : callMethod(m, args)
    \/ \E id \in pendingRequests : Due(CallTimer(id)) /\ RpcTimeout(id)
    \/ \E c \in 1..Len(calls) : Due(RetryTimer(c)) /\ RetryDelayDone(c)
    \/ rpcDestroy
    \/ \E data \in RpcCallEvents : rpcHandleMessage("https://a", "target", data)
SpecTimedCall == InitTimedCall /\ [][NextTimedCall]_vars

\* ------------------------------------------------------------------- data
\* Bridges whose application passes either payload and whose counterpart returns either
\* value, talking to the counterpart window from an allowed origin.
DataClassOptions == [ClassOptions EXCEPT !.payloads = Payloads, !.values = Values]
DataRpcOptions ==
    [targetOrigin : {"*"}, channel : {"default"},
     maxRetries : {0, 1}, isRetryable : {"default"},
     timeout : {2}, retryDelay : {1}, retryBackoff : {2}, maxRetryDelay : {3},
     handshakeTimeout : {2},
     payloads : {Payloads}, overrides : {{NoOverride}}, values : {Values}]
InitData ==
    \E k \in {"parent", "child", "core"} :
       InitOf(k, IF k = "core" THEN DataRpcOptions ELSE {DataClassOptions})
NextData ==
    \/ Connect
    \/ \E m \in CallMethods, p \in options.payloads, o \in options.overrides : Call(m, p, o)
    \/ \E id \in 1..counter : CallTimeout(id)
    \/ Destroy
    \/ \E r \in 1..Len(inbound) : HandlerCompletes(r)
    \/ \E data \in Events : ParentHandleMessage("https://a", "target", data)
    \/ \E data \in Events : ChildHandleMessage("https://a", "target", data)
    \/ \E m \in CallMethods, args \in options.payloads : callMethod(m, args)
    \/ \E id \in pendingRequests : RpcTimeout(id)
    \/ \E c \in 1..Len(calls) : RetryDelayDone(c)
    \/ \E r \in 1..Len(inbound) : RpcHandlerCompletes(r)
    \/ rpcDestroy
    \/ \E data \in RpcEvents : rpcHandleMessage("https://a", "target", data)
SpecData == InitData /\ [][NextData]_vars

\* ---------------------------------------------------------------- origins
\* ParentBridge.postMessage: the targetOrigin it passes to window.postMessage
postTargetOrigin == allowedOrigins[1]

\* window.postMessage(message, targetOrigin): the browser hands the message to the document
\* in the target window only if targetOrigin is "*" or that document's origin
Deliverable(origin) == postTargetOrigin = "*" \/ postTargetOrigin = origin

\* What a well-behaved ChildBridge at childOrigin sends: an acknowledgment for a handshake
\* request and a response for a request, if they were delivered to it.
ChildEvents ==
    IF Deliverable(childOrigin)
    THEN { Msg(HANDSHAKE_ACK, 0, rid, "", FALSE, "", ms) :
              rid \in SentIds(HANDSHAKE_REQUEST), ms \in PeerMethodSets }
         \cup { [Msg(RESPONSE, 0, rid, "", TRUE, "", {}) EXCEPT !.data = v] :
                  rid \in SentIds(REQUEST), v \in options.values }
    ELSE {}

\* a ParentBridge and a child document at one of two origins
InitOrigins ==
    /\ Constructed("parent", {ClassOptions})
    /\ childOrigin \in {"https://a", "https://b"}
NextOrigins ==
    \/ Connect
    \/ \E tok \in 1..counter : HandshakeTimeout(tok)
    \/ SleepDone
    \/ \E m \in CallMethods, p \in options.payloads, o \in options.overrides : Call(m, p, o)
    \/ \E id \in 1..counter : CallTimeout(id)
    \/ \E data \in ChildEvents : ParentHandleMessage(childOrigin, "target", data)
SpecOrigins == InitOrigins /\ [][NextOrigins]_vars

\* -------------------------------------------------------------- malformed
\* What a misbehaving counterpart may send besides: a failure Response without its error
\* object, for a request this bridge sent or for none
MalformedEvents ==
    { Msg(RESPONSE, 0, rid, "", FALSE, NoError, {}) :
         rid \in SentIds(REQUEST) \cup {counter + 1} }
\* to a createBridge instance: an error message without its error object, a request
\* without its args, and data that is no object
RpcMalformedEvents ==
    { RpcMsg(RPC_ERROR, "default", id, "", NoError) :
         id \in SentIds(RPC_REQUEST) \cup {ForeignId} }
    \cup { [RpcMsg(RPC_REQUEST, "default", Len(inbound) + 1, m, "") EXCEPT !.data = NoArgs] :
             m \in IF Len(inbound) < MaxInbound /\ mayActAsResponder THEN Methods ELSE {} }
    \cup { RpcMsg("(not an object)", "default", Null, "", "") }
MalformedRpcOptions ==
    [targetOrigin : {"*"}, channel : {"default"},
     maxRetries : {0, 1}, isRetryable : {"default", "always"},
     timeout : {2}, retryDelay : {1}, retryBackoff : {2}, maxRetryDelay : {3},
     handshakeTimeout : {2},
     payloads : {{"p1"}}, overrides : {{NoOverride}}, values : {{"v1"}}]
InitMalformed ==
    \E k \in {"parent", "child", "core"} :
       InitOf(k, IF k = "core" THEN MalformedRpcOptions ELSE {ClassOptions})
NextMalformed ==
    \/ Connect
    \/ \E m \in CallMethods, p \in options.payloads, o \in options.overrides : Call(m, p, o)
    \/ \E id \in 1..counter : CallTimeout(id)
    \/ Destroy
    \/ \E data \in Events \cup MalformedEvents :
          ParentHandleMessage("https://a", "target", data)
    \/ \E data \in Events \cup MalformedEvents :
          ChildHandleMessage("https://a", "target", data)
    \/ \E m \in CallMethods, args \in options.payloads : callMethod(m, args)
    \/ \E id \in pendingRequests : RpcTimeout(id)
    \/ \E c \in 1..Len(calls) : RetryDelayDone(c)
    \/ \E r \in 1..Len(inbound) : RpcHandlerCompletes(r)
    \/ rpcDestroy
    \/ \E data \in RpcEvents \cup RpcMalformedEvents :
          rpcHandleMessage("https://a", "target", data)
SpecMalformed == InitMalformed /\ [][NextMalformed]_vars

\* ------------------------------------------------------------------ claims
ResponseTypes == {RESPONSE, RPC_RESPONSE, RPC_ERROR}
IsClass == kind \in {"parent", "child"}

DestroyedIsAbsorbing == [][state = "destroyed" => state' = "destroyed"]_vars

\* C3: a destroy() step rejects every call whose attempt is pending with a DESTROYED
\* error, clears that attempt's timer and leaves the pending map empty; a call whose retry
\* loop had caught that rejection ends with DESTROYED when its loop resumes.
DestroyDrainsPending ==
    [][ /\ last'.op = "destroy" =>
             /\ pending' = {} /\ pendingRequests' = {}
             /\ \A c \in 1..Len(calls) :
                   calls[c].pc = "waiting" =>
                      /\ calls'[c].pc # "waiting"
                      /\ calls'[c].lasterr = (IF IsClass THEN DESTROYED ELSE "DESTROYED")
                      /\ IsClass => calls'[c].outcome = DESTROYED /\ calls'[c].settles = 1
                      /\ CallTimer(calls[c].id) \notin timers'
        /\ \A c \in 1..Len(calls) :
              (calls[c].pc = "backoff" /\ calls[c].lasterr = "DESTROYED"
                 /\ calls'[c].pc # "backoff")
                 => calls'[c].pc = "done" /\ calls'[c].outcome = "DESTROYED" ]_vars

\* C3 witness: destroy() has just run over two pending calls.
DestroyedTwoPendingCalls ==
    /\ last.op = "destroy"
    /\ Len(calls) >= 2
    /\ \A c \in 1..2 : calls[c].lasterr \in {DESTROYED, "DESTROYED"} /\ calls[c].nsent >= 1
    /\ pending = {} /\ pendingRequests = {}
    /\ \A t \in timers : t.t # "call"

\* C4: once destroy() has been called, every call() and connect() rejects at once with
\* DESTROYED or NOT_CONNECTED and hands no message to the transport.
NothingStartsAfterDestroy ==
    [][ (destroyCalled /\ last'.op \in {"call", "connect"}) =>
           /\ sent' = sent
           /\ last'.op = "call" =>
                 /\ calls'[Len(calls')].pc = "done"
                 /\ calls'[Len(calls')].outcome \in {DESTROYED, NOT_CONNECTED, "DESTROYED"}
           /\ last'.op = "connect" =>
                 connects'[Len(connects')] \in {DESTROYED, NOT_CONNECTED} ]_vars

\* C5: a message event whose origin is outside the allow-set changes nothing of the
\* bridge: no handler is invoked, the ConnectionState stays, no call is settled, nothing
\* is sent.
UntrustedOriginChangesNothing == [][last'.op = "untrusted" => UNCHANGED bridge]_vars

\* C5 witness: a message from an origin outside the allow-set, addressing a call that is
\* waiting, has just been handled.
UntrustedMessageHandled ==
    /\ last.op = "untrusted"
    /\ \E c \in 1..Len(calls) : calls[c].pc = "waiting"

\* C6: a HandshakeAck from the counterpart whose requestId is not the id of the handshake
\* attempt connect() is waiting on leaves the ConnectionState, the pending connect(), the
\* attempt and its timer as they are.
StaleAckIgnored ==
    [][last'.op = "staleAck" =>
          /\ state' = state /\ connects' = connects /\ conn' = conn
          /\ handshakeResolve' = handshakeResolve /\ timers' = timers ]_vars

\* C6 witness: the second handshake attempt is outstanding and the acknowledgment of the
\* first, superseded attempt has just arrived.
AckOfSupersededAttempt ==
    /\ last.op = "staleAck"
    /\ conn.pc = "await" /\ conn.attempt = 2
    /\ last.rid \in SentIds(HANDSHAKE_REQUEST)
    /\ state = "connecting" /\ connects[conn.rec] = "pending"

\* C7: every inbound request the router accepted is answered by exactly one response,
\* and no exception escapes while answering it.
EveryRequestAnsweredOnce ==
    \A r \in 1..Len(inbound) :
       inbound[r].id # Null =>
          /\ ~inbound[r].escaped
          /\ inbound[r].responses <= 1
          /\ inbound[r].status = "done" => inbound[r].responses = 1

\* C8: a response settles the waiting call whose correlation id it carries and nothing
\* else: every other call (waiting or in a retry backoff), every other timer and every
\* other pending entry is as before.
ResponseSettlesOnlyItsCall ==
    [][last'.op \in ResponseTypes =>
          /\ \A c \in 1..Len(calls) :
                IF calls[c].pc = "waiting" /\ calls[c].id = last'.rid
                THEN calls'[c].replied /\ calls'[c].pc # "waiting"
                ELSE calls'[c] = calls[c]
          /\ \A t \in timers : t \notin timers' => t = CallTimer(last'.rid)
          /\ pending \ pending' \subseteq {last'.rid}
          /\ pendingRequests \ pendingRequests' \subseteq {last'.rid} ]_vars

\* C8 witness: the response to the second call has just settled it while the first call
\* waits in its retry backoff, its timer armed.
ResponseDuringBackoffOfAnother ==
    /\ last.op \in ResponseTypes
    /\ Len(calls) >= 2
    /\ calls[2].id = last.rid /\ calls[2].replied /\ calls[2].pc = "done"
    /\ calls[1].pc = "backoff" /\ RetryTimer(1) \in timers

\* C9: call() on a ParentBridge or ChildBridge whose ConnectionState is not connected
\* rejects at once with NOT_CONNECTED: no request is sent, no pending entry and no timer
\* is created.
CallWhenNotConnected ==
    [][ (last'.op = "call" /\ IsClass /\ state # "connected") =>
           /\ calls'[Len(calls')].pc = "done"
           /\ calls'[Len(calls')].outcome = NOT_CONNECTED
           /\ calls'[Len(calls')].settles = 1
           /\ calls'[Len(calls')].nsent = 0
           /\ sent' = sent /\ pending' = pending /\ timers' = timers ]_vars

\* C9 witness: call() has just been refused during a handshake.
CallRefusedWhileConnecting ==
    /\ last.op = "call" /\ IsClass
    /\ state = "connecting"
    /\ calls[Len(calls)].outcome = NOT_CONNECTED

\* C10: with maxRetries = N, the default predicate, no reply reaching the call and no
\* destroy(), every request but the first follows a timeout of the previous one, and the
\* call ends after exactly N + 1 requests with a timeout error.
RetriesUntilExhausted ==
    \A c \in 1..Len(calls) :
       ( /\ kind = "core" /\ options.isRetryable = "default" /\ options.maxRetries >= 0
         /\ ~calls[c].replied /\ calls[c].lasterr # "DESTROYED"
         /\ calls[c].outcome # "DESTROYED" ) =>
          /\ calls[c].pc = "waiting" => calls[c].nsent = calls[c].ntimeouts + 1
          /\ calls[c].pc = "backoff" => calls[c].nsent = calls[c].ntimeouts
          /\ calls[c].pc = "done" =>
                /\ calls[c].nsent = options.maxRetries + 1
                /\ calls[c].ntimeouts = calls[c].nsent
                /\ calls[c].outcome = "TIMEOUT"
                /\ calls[c].errclass = "RpcTimeoutError"

\* C10 witness: a call with two retries ended after three requests, each timed out.
ThreeAttemptsTimedOut ==
    /\ kind = "core" /\ options.maxRetries = 2 /\ options.isRetryable = "default"
    /\ \E c \in 1..Len(calls) :
          /\ calls[c].pc = "done" /\ calls[c].nsent = 3 /\ calls[c].ntimeouts = 3
          /\ calls[c].outcome = "TIMEOUT"

\* C11: when an attempt of a call fails, the call goes on to a further attempt exactly if
\* the attempt was not the last allowed one and the retry predicate holds for the error
\* (by default: for a timeout of the attempt only; a custom predicate: for any error);
\* otherwise the call ends with that error.
RetryIffAllowedAndRetryable ==
    [][\A c \in 1..Len(calls) :
          ( /\ kind = "core" /\ calls[c].pc = "waiting" /\ calls'[c].pc # "waiting"
            /\ calls'[c].outcome # "ok" ) =>
             LET timedOut == calls'[c].ntimeouts = calls[c].ntimeouts + 1
                 retry == /\ calls[c].attempt < options.maxRetries
                          /\ options.isRetryable = "default" => timedOut
             IN IF retry
                THEN calls'[c].pc = "backoff" /\ calls'[c].settles = 0
                ELSE /\ calls'[c].pc = "done" /\ calls'[c].settles = 1
                     /\ calls'[c].outcome = calls'[c].lasterr
                     /\ calls'[c].nsent = calls[c].nsent ]_vars

\* C11 witness: under the default predicate and with two retries allowed, a remote-reported
\* error ended a call after its single request.
RemoteErrorNotRetried ==
    /\ kind = "core" /\ options.isRetryable = "default" /\ options.maxRetries = 2
    /\ \E c \in 1..Len(calls) :
          /\ calls[c].pc = "done" /\ calls[c].replied /\ calls[c].nsent = 1
          /\ calls[c].outcome = "METHOD_NOT_FOUND"

\* C12: the sleep that follows the failure of zero-based attempt a is
\* min(retryDelay * retryBackoff^a, maxRetryDelay); while it lasts no further request is
\* sent, and the next request is sent when it has elapsed, not before.
RetryDelayIsCappedExponential ==
    \A c \in 1..Len(calls) :
       /\ calls[c].pc = "backoff" =>
             /\ calls[c].delay = Min(options.retryDelay * options.retryBackoff ^ calls[c].attempt,
                                     options.maxRetryDelay)
             /\ calls[c].nsent = calls[c].attempt + 1
             /\ now <= calls[c].failedAt + calls[c].delay
       /\ (calls[c].pc = "waiting" /\ calls[c].attempt >= 1) =>
             /\ calls[c].delay =
                   Min(options.retryDelay * options.retryBackoff ^ (calls[c].attempt - 1),
                       options.maxRetryDelay)
             /\ calls[c].sentAt = calls[c].failedAt + calls[c].delay

\* C12 witness: the third request of a call went out after the capped delay: retryDelay 2
\* and retryBackoff 2 give 4 for attempt 1, maxRetryDelay 3 caps it.
ThirdRequestAfterCappedDelay ==
    /\ options.retryDelay = 2 /\ options.retryBackoff = 2 /\ options.maxRetryDelay = 3
    /\ \E c \in 1..Len(calls) :
          /\ calls[c].pc = "waiting" /\ calls[c].attempt = 2 /\ calls[c].nsent = 3
          /\ calls[c].delay = 3 /\ calls[c].sentAt = calls[c].failedAt + 3

\* a call made on a live bridge whose maxRetries is one of `limits` sends one request and
\* no more, never enters a backoff, and the outcome of that attempt is its result
SingleAttemptWhen(limits) ==
    \A c \in 1..Len(calls) :
       (kind = "core" /\ options.maxRetries \in limits /\ calls[c].nsent >= 1) =>
          /\ calls[c].nsent = 1 /\ calls[c].attempt = 0
          /\ calls[c].pc \in {"waiting", "done"}
          /\ calls[c].ntimeouts = 1 =>
                calls[c].pc = "done" /\ calls[c].outcome = "TIMEOUT" /\ calls[c].settles = 1

\* C13, as stated: with maxRetries 0 or 1 a call makes exactly one attempt, whose outcome
\* (a timeout included) is final.
SingleAttemptUpToOneRetry == SingleAttemptWhen({0, 1})

\* C13, amended: with maxRetries <= 0 (at most one attempt allowed: maxRetries + 1 is 0 or
\* 1) a call makes exactly one attempt, whose outcome (a timeout included) is final.
SingleAttemptWithoutRetries == SingleAttemptWhen(-1..0)

\* C13 witness: with maxRetries -1 a call sent its one request, timed out and ended.
NegativeLimitOneAttempt ==
    /\ kind = "core" /\ options.maxRetries = -1
    /\ \E c \in 1..Len(calls) :
          /\ calls[c].pc = "done" /\ calls[c].nsent = 1 /\ calls[c].ntimeouts = 1
          /\ calls[c].outcome = "TIMEOUT"

\* C14: once the bridge is destroyed, a call that is waiting out a retry backoff sends no
\* further request: it stays in its backoff until the sleep ends and then rejects with
\* DESTROYED.
DestroyedDuringBackoffAborts ==
    [][\A c \in 1..Len(calls) :
          (kind = "core" /\ calls[c].pc = "backoff" /\ isDestroyed') =>
             /\ calls'[c].nsent = calls[c].nsent
             /\ \/ calls'[c] = calls[c]
                \/ /\ calls'[c].pc = "done" /\ calls'[c].outcome = "DESTROYED"
                   /\ calls'[c].errclass = "RpcError" /\ calls'[c].settles = 1
                   /\ sent' = sent ]_vars

\* C14 witness: a call timed out, went into its backoff, the bridge was destroyed, and the
\* end of the sleep has just rejected the call with DESTROYED after its single request.
BackoffEndedAfterDestroy ==
    /\ kind = "core" /\ isDestroyed /\ last.op = "retryDelayDone"
    /\ \E c \in 1..Len(calls) :
          /\ calls[c].pc = "done" /\ calls[c].outcome = "DESTROYED"
          /\ calls[c].lasterr = "TIMEOUT" /\ calls[c].nsent = 1 /\ calls[c].ntimeouts = 1

\* the connect() invocations that ended with HANDSHAKE_FAILED, cause: timeout
FailedConnects == { r \in 1..Len(connects) : connects[r] = HANDSHAKE_FAILED }

MatchingAckConnects ==
    [][ ( /\ last'.op = HANDSHAKE_ACK /\ conn.pc = "await" /\ last'.rid = conn.tok
          /\ HandshakeTimer(conn.tok) \in timers ) =>
           /\ state' = "connected"
           /\ connects'[conn.rec] = "ok"
           /\ remoteMethods' = last'.methods
           /\ conn'.pc = "idle"
           /\ HandshakeTimer(conn.tok) \notin timers' ]_vars

\* C16 witness: the acknowledgment of the second attempt, advertising "add", has just
\* connected the bridge.
AckOfSecondAttemptConnected ==
    /\ kind = "parent" /\ last.op = HANDSHAKE_ACK /\ last.methods = {"add"}
    /\ state = "connected" /\ connects = << "ok" >> /\ remoteMethods = {"add"}
    /\ Cardinality(SentIds(HANDSHAKE_REQUEST)) = 2
    /\ last.rid \in SentIds(HANDSHAKE_REQUEST)

\* C17, as stated: a connect() that is never acknowledged is no longer pending once
\* handshakeTimeout * handshakeRetries has elapsed since it was called.
ConnectRejectedWithinTimeouts ==
    conn.pc # "idle" => now - conn.t0 <= options.handshakeTimeout * handshakeRetries

\* C17, amended: a connect() that is never acknowledged rejects with HANDSHAKE_FAILED
\* exactly when handshakeTimeout * handshakeRetries plus the inter-attempt sleeps,
\* retryDelay * (handshakeRetries - 1), have elapsed since it was called; it is never
\* pending after that.
ConnectRejectedAfterTimeoutsAndSleeps ==
    /\ [](conn.pc # "idle" =>
             now - conn.t0 <= options.handshakeTimeout * handshakeRetries
                                 + options.retryDelay * (handshakeRetries - 1))
    /\ [][(conn.pc # "idle" /\ conn'.pc = "idle") =>
             /\ connects'[conn.rec] = HANDSHAKE_FAILED
             /\ now = conn.t0 + options.handshakeTimeout * handshakeRetries
                         + options.retryDelay * (handshakeRetries - 1)]_vars

\* C17 witness: with retryDelay 1 a connect() called at time 1 has rejected, later than
\* handshakeTimeout * handshakeRetries after its call.
ConnectRejectedLate ==
    /\ kind = "parent" /\ options.retryDelay = 1
    /\ connects = << HANDSHAKE_FAILED >> /\ last.op = "handshakeTimeout"
    /\ now = 1 + options.handshakeTimeout * handshakeRetries + (handshakeRetries - 1)

\* C18: connect() called while the state is "connecting" is rejected as already in
\* progress and leaves the handshake in progress alone: the state stays "connecting",
\* the listener stays as it was, and the outstanding attempt, its timers, its resolver
\* and its outcome record are untouched, so the first connect() completes by itself.
SecondConnectRejectedUndisturbed ==
    [][(last'.op = "connect" /\ state = "connecting") =>
          /\ connects' = Append(connects, ALREADY_IN_PROGRESS)
          /\ state' = "connecting"
          /\ listening' = listening
          /\ conn' = conn /\ timers' = timers
          /\ handshakeResolve' = handshakeResolve
          /\ pendingHandshakeId' = pendingHandshakeId
          /\ targetWindow' = targetWindow
          /\ sent' = sent]_vars

\* C18 witness: a second connect() was refused while the first was in progress with its
\* listener attached, and the first then resolved on its own acknowledgement.
FirstConnectResolvedAfterRefusal ==
    /\ kind = "parent" /\ ~destroyCalled
    /\ connects = << "ok", ALREADY_IN_PROGRESS >>
    /\ state = "connected" /\ listening

\* C19: connect() called while the state is "connected" resolves, sends no message, and
\* leaves the state, the recorded remote methods and every pending call unchanged.
ConnectWhenConnectedIsNoOp ==
    [][(last'.op = "connect" /\ state = "connected") =>
          /\ connects' = Append(connects, "ok")
          /\ sent' = sent
          /\ state' = state
          /\ remoteMethods' = remoteMethods
          /\ pending' = pending /\ calls' = calls /\ timers' = timers]_vars

\* C19 witness: connect() resolved a second time on a connected bridge that had a call
\* pending.
ConnectedAgainWithPendingCall ==
    /\ kind = "parent" /\ last.op = "connect"
    /\ connects = << "ok", "ok" >>
    /\ state = "connected" /\ pending # {}

\* C20: a ChildBridge that is not destroyed is listening, and a HandshakeRequest that
\* passes its trust checks, whatever the state it arrives in, makes it record the
\* sender's origin and the advertised methods (when the request carries any), send
\* exactly one message, a HandshakeAck whose requestId is the request's id, and be in
\* state "connected".
HandshakeRequestAcknowledged ==
    /\ [](kind = "child" /\ state # "destroyed" => listening)
    /\ [][(kind = "child" /\ last'.op = HANDSHAKE_REQUEST) =>
             /\ parentOrigin' = last'.origin
             /\ parentMethods' = IF last'.methods # Absent THEN last'.methods
                                 ELSE parentMethods
             /\ \E a \in sent' : /\ a \notin sent /\ sent' = sent \cup {a}
                                 /\ a.type = HANDSHAKE_ACK
                                 /\ a.requestId = last'.rid
             /\ state' = "connected"]_vars

\* C20 witness: a second HandshakeRequest reached a child that was already connected;
\* its origin and methods are recorded and both requests were acknowledged by their ids.
RehandshakeWhileConnected ==
    /\ kind = "child" /\ last.op = HANDSHAKE_REQUEST /\ last.rid = 2
    /\ state = "connected"
    /\ parentOrigin = last.origin /\ parentMethods = last.methods
    /\ \E a, b \in sent : /\ a.type = HANDSHAKE_ACK /\ a.requestId = 1
                          /\ b.type = HANDSHAKE_ACK /\ b.requestId = 2

\* C21: a Request that reaches a class bridge whose ConnectionState is not "connected"
\* invokes no handler and produces no response.
RequestIgnoredUnlessConnected ==
    [][(IsClass /\ last'.op = REQUEST /\ state # "connected") =>
          inbound' = inbound /\ sent' = sent]_vars

\* C21 witness: a ParentBridge still in state "connecting" ran a handler for an inbound
\* Request and sent its Response.
RequestServedWhileConnecting ==
    /\ kind = "parent" /\ ~destroyCalled
    /\ state = "connecting" /\ conn.pc = "await" /\ connects = << "pending" >>
    /\ Len(inbound) = 1 /\ inbound[1].responses = 1
    /\ \E x \in sent : x.type = RESPONSE /\ x.requestId = inbound[1].id

\* the ids under which the request(s) of the call at index c travel
RequestIdsOf(c) ==
    IF kind = "core" THEN { generateId(c, a) : a \in 0..MaxRetries } ELSE {calls[c].id}
\* the inbound records of requests (a fire-and-forget message has no id)
InboundRequests == { r \in 1..Len(inbound) : inbound[r].id # Null }

\* C22: the round trip carries payload and value unmodified.  Caller: every request sent
\* names the method and carries the payload of the call it belongs to, and a success
\* response routed to a pending call resolves that call to exactly the response's data.
\* Responder: a handler is invoked with exactly the request's payload, and what it
\* returns is the data of the one success response sent for that request.
RoundTripUnmodified ==
    /\ [](\A x \in sent : x.type \in {REQUEST, RPC_REQUEST} =>
             \E c \in 1..Len(calls) : /\ x.id \in RequestIdsOf(c)
                                      /\ x.method = calls[c].method
                                      /\ x.data = calls[c].payload)
    /\ [][(last'.op \in {RESPONSE, RPC_RESPONSE} /\ (IsClass => last'.msg.success)) =>
             \E c \in 1..Len(calls) :
                /\ calls[c].id = last'.rid /\ calls[c].pc = "waiting"
                /\ calls'[c].pc = "done" /\ calls'[c].outcome = "ok"
                /\ calls'[c].value = last'.msg.data
                /\ \A d \in 1..Len(calls) : d # c => calls'[d] = calls[d]]_vars
    /\ [][inbound' # inbound /\ Len(inbound') > Len(inbound) =>
             /\ last'.op \in {REQUEST, RPC_REQUEST, FIRE_AND_FORGET}
             /\ inbound'[Len(inbound')].method = last'.msg.method
             /\ inbound'[Len(inbound')].payload = last'.msg.data]_vars
    /\ [](\A r \in InboundRequests :
             (inbound[r].responses = 1 /\ inbound[r].method \in DOMAIN handlers
                /\ handlers[inbound[r].method] = "returns") =>
                \E x \in sent :
                   /\ x.type \in {RESPONSE, RPC_RESPONSE} /\ Refers(x) = inbound[r].id
                   /\ (IsClass => x.success)
                   /\ x.data = handlerResult[inbound[r].payload]
                   /\ \A y \in sent : (y.type \in ResponseTypes /\ Refers(y) = inbound[r].id)
                                         => y = x)

\* C22 witness: two calls with different payloads are resolved, each to the value its
\* own response carried.
TwoCallsResolvedToTheirValues ==
    /\ Len(calls) = 2
    /\ calls[1].payload = "p1" /\ calls[2].payload = "p2"
    /\ calls[1].outcome = "ok" /\ calls[2].outcome = "ok"
    /\ calls[1].value = "v2" /\ calls[2].value = "v1"
    /\ last.op \in {RESPONSE, RPC_RESPONSE} /\ last.msg.data = "v2" /\ last.rid = calls[1].id

\* the error message names the method
Names(message, m) == \E i \in 1..Len(message) : message[i] = m
NotFoundCodes == {METHOD_NOT_FOUND, "METHOD_NOT_FOUND"}
\* a Request the bridge lets through to handleRequest
RequestAccepted(op) ==
    /\ op \in {REQUEST, RPC_REQUEST}
    /\ kind = "child" => state = "connected"
    /\ kind = "parent" => targetWindow

\* C23: a Request naming an unregistered method invokes no handler and is answered at
\* once by one failure response with code METHOD_NOT_FOUND whose message names the
\* method; a METHOD_NOT_FOUND response routed to a pending call rejects its attempt
\* with that code and that message (the call ends with it unless the retry policy of
\* createBridge reattempts).
UnknownMethodIsNotFound ==
    /\ [](\A r \in 1..Len(inbound) :
             inbound[r].method \notin DOMAIN handlers => inbound[r].status = "done")
    /\ [][(RequestAccepted(last'.op) /\ last'.msg.method \notin DOMAIN handlers) =>
             /\ Len(inbound') = Len(inbound) + 1
             /\ inbound'[Len(inbound')].status = "done"
             /\ inbound'[Len(inbound')].responses = 1
             /\ \E x \in sent' :
                   /\ x \notin sent /\ sent' = sent \cup {x}
                   /\ x.type \in {RESPONSE, RPC_ERROR} /\ ~x.success
                   /\ Refers(x) = last'.msg.id
                   /\ x.code \in NotFoundCodes
                   /\ Names(x.message, last'.msg.method)]_vars
    /\ [][(last'.op \in {RESPONSE, RPC_ERROR} /\ ~last'.msg.success
             /\ last'.msg.code \in NotFoundCodes) =>
             \E c \in 1..Len(calls) :
                /\ calls[c].id = last'.rid /\ calls[c].pc = "waiting"
                /\ calls'[c].lasterr = last'.msg.code
                /\ calls'[c].errmsg = last'.msg.message
                /\ Names(calls'[c].errmsg, calls[c].method)
                /\ \/ calls'[c].pc = "done" /\ calls'[c].outcome = last'.msg.code
                   \/ calls'[c].pc = "backoff" /\ shouldRetry(calls[c], "RpcError")]_vars

\* C23 witness: a Request for the unregistered method "missing" was answered with a
\* METHOD_NOT_FOUND failure naming it, and no handler ever ran.
MissingMethodAnswered ==
    /\ Len(inbound) = 1 /\ inbound[1].method = "missing" /\ inbound[1].status = "done"
    /\ RequestAccepted(last.op)
    /\ \E x \in sent : /\ Refers(x) = inbound[1].id /\ x.code \in NotFoundCodes
                       /\ Names(x.message, "missing")

\* a failure response was routed to a pending call
FailureRouted(tag) ==
    \/ tag.op = RESPONSE /\ ~tag.msg.success
    \/ tag.op = RPC_ERROR
\* the attempt of call c was rejected, and the call ended with that error or reattempts
AttemptRejectedWith(c, code) ==
    /\ calls'[c].lasterr = code
    /\ \/ calls'[c].pc = "done" /\ calls'[c].outcome = code
       \/ calls'[c].pc = "backoff" /\ shouldRetry(calls[c], "RpcError")

\* C24, as stated: the error a call rejects with carries the same code, the same message
\* and the same details as the error serialized into the failure response.
ErrorPropagatedVerbatim ==
    [][FailureRouted(last') =>
          \E c \in 1..Len(calls) :
             /\ calls[c].id = last'.rid /\ calls[c].pc = "waiting"
             /\ AttemptRejectedWith(c, last'.msg.code)
             /\ calls'[c].errmsg = last'.msg.message
             /\ calls'[c].details = last'.msg.details]_vars

\* C24, amended: the error a call rejects with carries the message and the details of the
\* error serialized into the failure response, and its code when that code is a
\* BridgeErrorCode value (createBridge: whatever the code); a class bridge replaces any
\* other code by UNKNOWN.
ErrorPropagatedWithKnownCode ==
    [][FailureRouted(last') =>
          \E c \in 1..Len(calls) :
             /\ calls[c].id = last'.rid /\ calls[c].pc = "waiting"
             /\ AttemptRejectedWith(c, IF IsClass /\ last'.msg.code \notin BridgeErrorCode
                                       THEN UNKNOWN ELSE last'.msg.code)
             /\ calls'[c].errmsg = last'.msg.message
             /\ calls'[c].details = last'.msg.details]_vars

\* C24 witness: a failure response with a code outside BridgeErrorCode, a message and
\* details rejected a call with UNKNOWN, that message and those details.
ForeignCodeBecameUnknown ==
    /\ IsClass /\ FailureRouted(last) /\ last.msg.code = "bogus"
    /\ \E c \in 1..Len(calls) :
          /\ calls[c].id = last.rid /\ calls[c].outcome = UNKNOWN
          /\ calls[c].errmsg = << "custom" >> /\ calls[c].details = "d1"

\* the timeout in force for the call at index c: the override passed to call(), if any,
\* otherwise the timeout the bridge was configured with
EffectiveTimeout(c) ==
    IF kind # "core" /\ calls[c].override # NoOverride THEN calls[c].override
    ELSE options.timeout
\* the current attempt of the call at index c is in the pending map
AttemptPending(c) ==
    calls[c].pc = "waiting" /\ calls[c].id \in pending \cup pendingRequests
TimeoutCodes == {TIMEOUT, "TIMEOUT"}

\* C25: an attempt is never pending beyond its effective timeout, counted from the moment
\* its request was sent; the timer that ends it fires exactly then, removes the pending
\* entry in that same step and rejects the attempt with a TIMEOUT error whose message
\* names the method and the effective timeout.
UnansweredCallTimesOut ==
    /\ [](\A c \in 1..Len(calls) :
             AttemptPending(c) => now <= calls[c].sentAt + EffectiveTimeout(c))
    /\ [][(last'.op = "callTimeout" /\ now' = now) =>
             \E c \in 1..Len(calls) :
                /\ AttemptPending(c)
                /\ now = calls[c].sentAt + EffectiveTimeout(c)
                /\ calls[c].id \notin pending' \cup pendingRequests'
                /\ CallTimer(calls[c].id) \notin timers'
                /\ calls'[c].lasterr \in TimeoutCodes
                /\ Names(calls'[c].errmsg, calls[c].method)
                /\ Names(calls'[c].errmsg, ToString(EffectiveTimeout(c)))
                /\ \/ calls'[c].pc = "done" /\ calls'[c].outcome \in TimeoutCodes
                   \/ calls'[c].pc = "backoff" /\ shouldRetry(calls[c], "RpcTimeoutError")
                /\ \A d \in 1..Len(calls) : d # c => calls'[d] = calls[d]]_vars

\* C25 witness: of two calls outstanding together, the one made with the override 3 was
\* rejected by its timer three units after it was sent, the error naming "3ms".
OverriddenCallTimedOut ==
    /\ IsClass /\ last.op = "callTimeout" /\ Len(calls) = 2
    /\ calls[1].override = 3 /\ calls[1].outcome = TIMEOUT
    /\ calls[1].failedAt = calls[1].sentAt + 3 /\ now = calls[1].failedAt
    /\ Names(calls[1].errmsg, "3") /\ Names(calls[1].errmsg, "add")
    /\ calls[1].id \notin pending
    /\ calls[2].override = NoOverride /\ calls[2].outcome = TIMEOUT

\* the requests one call() may post: one, and one more per permitted retry
AttemptBound == IF kind = "core" /\ options.maxRetries > 0 THEN options.maxRetries + 1 ELSE 1

\* the ways a call() whose request was posted can end: a response, a timeout, an error the
\* counterpart sent, or the rejection of destroy()
SentCallEndings ==
    {"ok"} \cup TimeoutCodes \cup {DESTROYED, "DESTROYED"}
           \cup {METHOD_NOT_FOUND, HANDLER_ERROR, UNKNOWN, "METHOD_NOT_FOUND", "HANDLER_ERROR",
                 "UNKNOWN", "bogus"}

UnmatchedResponseIgnored ==
    [][last'.op = "unmatched" =>
          /\ last'.rid \notin pending \cup pendingRequests
          /\ UNCHANGED bridge]_vars

\* C27 witness: a response to an attempt that had timed out has just been dropped while
\* another entry was pending.
LateResponseDropped ==
    /\ last.op = "unmatched"
    /\ pending \cup pendingRequests # {}
    /\ \E c \in 1..Len(calls) :
          /\ last.rid \in RequestIdsOf(c)
          /\ calls[c].ntimeouts >= 1
          /\ ~calls[c].replied

\* the inbound records of fire-and-forget messages
InboundNotifications == { r \in 1..Len(inbound) : inbound[r].id = Null }

\* C28: nothing is sent back for a fire-and-forget message.  The step that receives one
\* sends nothing, whether its handler exists or not, and touches no call; the step in which
\* its handler returns or throws sends nothing either; no response or error ever sent
\* answers anything but an inbound request; and no failure of such a handler escapes the
\* message handler.
NotificationNeverAnswered ==
    /\ [](\A r \in InboundNotifications :
             inbound[r].responses = 0 /\ ~inbound[r].escaped)
    /\ [](\A x \in sent : x.type \in {RPC_RESPONSE, RPC_ERROR} =>
             \E r \in InboundRequests : inbound[r].id = x.id)
    /\ [][last'.op = FIRE_AND_FORGET =>
             /\ sent' = sent
             /\ UNCHANGED << calls, pendingRequests, timers, isDestroyed >>
             /\ IF last'.msg.method \in DOMAIN handlers
                THEN /\ Len(inbound') = Len(inbound) + 1
                     /\ Len(inbound') \in InboundNotifications'
                ELSE inbound' = inbound]_vars
    /\ [][\A r \in InboundNotifications :
             (inbound[r].status = "running" /\ inbound'[r].status = "done") =>
                sent' = sent]_vars

\* C28 witness: a fire-and-forget message for a method without a handler has just been
\* received, after the throwing handler of an earlier one had run to its end.
NotificationsHandledSilently ==
    /\ last.op = FIRE_AND_FORGET
    /\ last.msg.method \notin DOMAIN handlers
    /\ \E r \in InboundNotifications :
          inbound[r].method = "boom" /\ inbound[r].status = "done"
    /\ sent = {}

\* C29: a message of another channel than the receiving bridge's changes nothing of that
\* bridge: no handler is invoked, no pending call is settled, no timer is cleared, nothing
\* is sent.
OtherChannelIgnored ==
    [][last'.op = "crossChannel" =>
          /\ inbound' = inbound
          /\ calls' = calls /\ pendingRequests' = pendingRequests /\ timers' = timers
          /\ sent' = sent
          /\ UNCHANGED bridge]_vars

\* C29 witness: a response of another channel carrying the id of a pending call has just
\* been dropped, and the call is still pending.
OtherChannelResponseDropped ==
    /\ last.op = "crossChannel"
    /\ last.rid \in pendingRequests
    /\ \E c \in 1..Len(calls) : calls[c].id = last.rid /\ calls[c].pc = "waiting"

\* C30: a destroy() on a bridge whose destroy() has run before is a no-op: it changes no
\* state, rejects no promise, clears no timer and sends no message.
SecondDestroyIsNoOp ==
    [][(last'.op = "destroy" /\ destroyCalled) => UNCHANGED bridge]_vars

\* C30 witness: destroy() has run on a ParentBridge whose earlier destroy() was undone by
\* the connect() in flight (its handshake failed for want of a target window).
DestroyedTwiceWithEffect ==
    /\ kind = "parent"
    /\ last.op = "destroy" /\ state = "destroyed"
    /\ \E k \in 1..Len(connects) :
          connects[k] = "BRIDGE_HANDSHAKE_FAILED: cause BRIDGE_NOT_CONNECTED"

\* ------------------------------------------------- utils/correlation.ts alone
\* Number.prototype.toString(36): the digits of n, most significant first (0..35)
RECURSIVE toString36(_)
toString36(n) == IF n < 36 THEN << n >> ELSE Append(toString36(n \div 36), n % 36)

\* the character "-" of a correlation id, outside the digits
Dash == 36

\* the template literal of generateCorrelationId(): `${time36}-${count36}`
CorrelationId(time, count) == toString36(time) \o << Dash >> \o toString36(count)

\* generateCorrelationId() called by the application
generateCorrelationId ==
    /\ Len(issued) < MaxIds
    /\ counter' = counter + 1
    /\ issued' = Append(issued, CorrelationId(now, counter + 1))
    /\ last' = Op("generateCorrelationId")
    /\ UNCHANGED << kind, allowedOrigins, options, now, childOrigin, core, state, targetWindow,
                    parentOrigin, listening, pending, timers, handshakeResolve,
                    pendingHandshakeId, remoteMethods, parentMethods, sent, calls, connects,
                    conn, inbound, destroyCalled >>

\* resetCounter()
resetCounter ==
    /\ counter' = 0
    /\ last' = Op("resetCounter")
    /\ UNCHANGED << config, core, state, targetWindow, parentOrigin, listening, pending,
                    timers, handshakeResolve, pendingHandshakeId, remoteMethods,
                    parentMethods, sent, calls, connects, conn, inbound, destroyCalled >>

\* the generator exercised on its own, under the clock
InitIds == InitOf("parent", {ClassOptions})
NextIds ==
    \/ Tick
    \/ generateCorrelationId
    \/ resetCounter
SpecIds == InitIds /\ [][NextIds]_vars

\* C31: no two ids returned by generateCorrelationId() are equal, whatever sequence of
\* generateCorrelationId() and resetCounter() is executed.
CorrelationIdsNeverRepeat ==
    \A i, j \in 1..Len(issued) : i # j => issued[i] # issued[j]

\* C31 witness: the generator has just returned, after a resetCounter(), an id it had
\* returned before.
SameIdAfterReset ==
    /\ last.op = "generateCorrelationId"
    /\ Len(issued) >= 2
    /\ \E i \in 1..(Len(issued) - 1) : issued[i] = issued[Len(issued)]

\* C32: a call that ended because the counterpart reported METHOD_NOT_FOUND was rejected
\* with an error of class RpcMethodNotFoundError (neither RpcTimeoutError nor plain
\* RpcError).
MethodNotFoundRejectsByClass ==
    \A c \in 1..Len(calls) :
       ( /\ kind = "core" /\ calls[c].pc = "done" /\ calls[c].replied
         /\ calls[c].outcome = "METHOD_NOT_FOUND" ) =>
          calls[c].errclass = "RpcMethodNotFoundError"

\* C32 witness: the counterpart's METHOD_NOT_FOUND error has just rejected a call, with
\* an error of the base class.
MethodNotFoundRejectedAsRpcError ==
    /\ last.op = RPC_ERROR
    /\ last.msg.code = "METHOD_NOT_FOUND"
    /\ \E c \in 1..Len(calls) :
          /\ calls[c].pc = "done" /\ calls[c].outcome = "METHOD_NOT_FOUND"
          /\ calls[c].errclass = "RpcError"
          /\ Names(calls[c].errmsg, "add")

\* C33: when destroy() returns no timer of the bridge is armed: no call timeout, no
\* handshake timeout, no inter-attempt sleep, no retry delay.
DestroyClearsEveryTimer ==
    [][last'.op = "destroy" => timers' = {}]_vars

\* C33 witness: destroy() has just returned leaving a handshake timeout, an inter-attempt
\* sleep or a retry delay armed, with every call timeout cleared.
TimerArmedAfterDestroy ==
    /\ last.op = "destroy"
    /\ state = "destroyed" \/ isDestroyed
    /\ timers # {}
    /\ \A t \in timers : t.t \in {"handshake", "sleep", "retry"}
    /\ \E c \in 1..Len(calls) : calls[c].lasterr \in {DESTROYED, "DESTROYED"}

\* the handshake attempts of the running connect() that have timed out: every handshake
\* request sent but the one the loop is waiting on
TimedOutAttempts ==
    IF conn.pc = "await" THEN SentIds(HANDSHAKE_REQUEST) \ {conn.tok}
    ELSE IF conn.pc = "sleep" THEN SentIds(HANDSHAKE_REQUEST)
    ELSE {}

\* C34: an acknowledgment from the counterpart that answers a handshake attempt which has
\* timed out, arriving during the inter-attempt delay or during a later attempt, changes
\* neither the ConnectionState, nor the remote methods recorded, nor the id of the
\* outstanding attempt, nor the pending connect().
LateAckIgnored ==
    [][(last'.op \in {"staleAck", HANDSHAKE_ACK} /\ last'.rid \in TimedOutAttempts) =>
          /\ state' = state
          /\ remoteMethods' = remoteMethods
          /\ pendingHandshakeId' = pendingHandshakeId
          /\ connects' = connects /\ conn' = conn]_vars

\* the same for acknowledgments that arrive while a later attempt is awaited
LateAckIgnoredDuringAttempt ==
    [][(last'.op \in {"staleAck", HANDSHAKE_ACK} /\ last'.rid \in TimedOutAttempts
          /\ conn.pc = "await") =>
          /\ state' = state
          /\ remoteMethods' = remoteMethods
          /\ pendingHandshakeId' = pendingHandshakeId
          /\ connects' = connects /\ conn' = conn]_vars

\* C34 witness: during the inter-attempt delay the acknowledgment of the attempt that had
\* timed out has just been accepted: its methods are recorded and the attempt id is gone.
LateAckRecordedDuringDelay ==
    /\ last.op = HANDSHAKE_ACK
    /\ conn.pc = "sleep" /\ ~destroyCalled
    /\ last.rid \in SentIds(HANDSHAKE_REQUEST)
    /\ last.methods # {} /\ remoteMethods = last.methods
    /\ pendingHandshakeId = Null
    /\ state = "connecting"

\* C35: no inbound message raises an exception out of the message handler while a call is
\* being settled, and none takes a call's entry out of the pending map without settling
\* the call: a call that is waiting for its reply has its entry and its timer.
MalformedMessageHarmless ==
    \A c \in 1..Len(calls) :
       /\ ~calls[c].escaped
       /\ calls[c].pc = "waiting" =>
             /\ calls[c].id \in pending \cup pendingRequests
             /\ CallTimer(calls[c].id) \in timers

\* C35 witness: a failure response without its error object has just arrived for a pending
\* call: the entry and the timer of the call are gone, its promise is not settled, and the
\* TypeError left the handler.
CallLostToMalformedResponse ==
    /\ last.op \in {RESPONSE, RPC_ERROR}
    /\ last.msg.code = NoError
    /\ \E c \in 1..Len(calls) :
          /\ calls[c].id = last.rid
          /\ calls[c].escaped
          /\ calls[c].pc = "waiting" /\ calls[c].settles = 0
          /\ calls[c].id \notin pending \cup pendingRequests
          /\ CallTimer(calls[c].id) \notin timers

\* C36: a message from an allowed origin whose source window is not the counterpart
\* changes nothing of the bridge: no handler is invoked, no pending call settled, no timer
\* cleared, no state changed, nothing sent.
ForeignSourceIgnored ==
    [][last'.op = "foreign" => UNCHANGED bridge]_vars

\* C36 witness: a message from a window that is not the counterpart has just been handled
\* by a createBridge instance whose only call is resolved and whose pending map is empty.
ForeignSourceHandled ==
    /\ kind = "core"
    /\ last.op = "foreign"
    /\ Len(calls) = 1 /\ calls[1].replied /\ calls[1].outcome = "ok"
    /\ calls[1].nsent = 1
    /\ pendingRequests = {}

\* C37: whatever a ParentBridge hands to the transport is deliverable to a child document
\* at any origin of its allow-set, so that the child can acknowledge and answer.
OutboundDeliverableToAllowedChild ==
    (kind = "parent" /\ isValidOrigin(childOrigin) /\ sent # {}) => Deliverable(childOrigin)

\* a child at an allowed origin that is not the first one listed is never connected to,
\* and no call to it is ever made
SecondOriginNeverConnects ==
    (isValidOrigin(childOrigin) /\ ~Deliverable(childOrigin)) =>
       /\ state # "connected"
       /\ \A k \in 1..Len(connects) : connects[k] # "ok"
       /\ \A c \in 1..Len(calls) : calls[c].nsent = 0

\* C37 witness: connect() to a child at the second allowed origin has failed after every
\* handshake attempt timed out unanswered.
ConnectFailedAtSecondOrigin ==
    /\ Len(allowedOrigins) >= 2 /\ childOrigin = allowedOrigins[2]
    /\ Len(connects) >= 1 /\ connects[1] = HANDSHAKE_FAILED
    /\ Cardinality(SentIds(HANDSHAKE_REQUEST)) = handshakeRetries
    /\ state = "disconnected"

\* the requests sent for the call at index c
RequestsOf(c) == { x \in sent : x.type = RPC_REQUEST /\ x.id \in RequestIdsOf(c) }

\* C38: the attempts of a retried call keep apart.  Every attempt was sent under an id of
\* its own (as many different request ids as requests sent); at most one attempt of a call
\* has a pending entry, and it is the latest one; and a response or error that names an
\* earlier attempt of a call leaves that call as it is.
RetryAttemptsKeepApart ==
    /\ [](\A c \in 1..Len(calls) :
             kind = "core" =>
                /\ Cardinality(RequestsOf(c)) = calls[c].nsent
                /\ Cardinality(RequestIdsOf(c) \cap pendingRequests) <= 1
                /\ RequestIdsOf(c) \cap pendingRequests \subseteq {calls[c].id})
    /\ [][\A c \in 1..Len(calls) :
             ( /\ kind = "core"
               /\ last'.op \in {"unmatched", RPC_RESPONSE, RPC_ERROR}
               /\ last'.rid \in RequestIdsOf(c)
               /\ last'.rid # calls[c].id ) => calls'[c] = calls[c]]_vars

\* C38 witness: the second attempt of a call is pending under a new id and a response to
\* its first attempt, which had timed out, has just been dropped.
ResponseToEarlierAttemptDropped ==
    /\ kind = "core"
    /\ last.op = "unmatched"
    /\ \E c \in 1..Len(calls) :
          /\ last.rid = generateId(c, 0)
          /\ calls[c].attempt = 1 /\ calls[c].id = generateId(c, 1)
          /\ calls[c].id # last.rid
          /\ calls[c].ntimeouts = 1
          /\ pendingRequests \cap RequestIdsOf(c) = {calls[c].id}
          /\ calls[c].pc = "waiting"

\* C39: once destroy() has been called the bridge hands nothing more to the transport.
NothingSentAfterDestroy ==
    [][destroyCalled => sent' = sent]_vars

\* C39 witness: the handler of an inbound request was running when destroy() was called
\* on a createBridge instance; it has now completed and its response has been sent.
ResponseSentAfterDestroy ==
    /\ kind = "core" /\ isDestroyed
    /\ last.op = "handlerCompletes"
    /\ \E r \in InboundRequests :
          /\ inbound[r].status = "done" /\ inbound[r].responses = 1
          /\ \E x \in sent : x.type \in {RPC_RESPONSE, RPC_ERROR} /\ x.id = inbound[r].id

\* the keys of the pending map
PendingKeys == pending \cup pendingRequests

\* C40: the pending map holds an entry for exactly the call attempts whose request was
\* sent and whose promise is not settled; each entry has its timer armed; no call timer
\* is armed for an id that is not a key of the map; and the map of a destroyed bridge is
\* empty.
PendingMapConsistent ==
    /\ PendingKeys = { calls[c].id : c \in { d \in 1..Len(calls) : calls[d].pc = "waiting" } }
    /\ \A c, d \in 1..Len(calls) :
          (calls[c].pc = "waiting" /\ calls[d].pc = "waiting" /\ c # d) =>
             calls[c].id # calls[d].id
    /\ \A c \in 1..Len(calls) : calls[c].pc = "waiting" => calls[c].nsent >= 1
    /\ \A id \in PendingKeys : CallTimer(id) \in timers
    /\ \A t \in timers : t.t = "call" => t.n \in PendingKeys
    /\ (state = "destroyed" \/ isDestroyed) => PendingKeys = {}

\* C40 witness: a call whose request was sent and whose promise is not settled has no
\* entry in the pending map and no timer, on a bridge that is not destroyed, while the
\* bridge goes on with other work.
SentCallWithoutEntry ==
    /\ ~(state = "destroyed" \/ isDestroyed)
    /\ last.op \notin {RESPONSE, RPC_ERROR}
    /\ \E c \in 1..Len(calls) :
          /\ calls[c].pc = "waiting" /\ calls[c].nsent >= 1 /\ calls[c].settles = 0
          /\ calls[c].id \notin PendingKeys
          /\ CallTimer(calls[c].id) \notin timers

====
